---- MODULE Spec2Model ----
(***************************************************************************)
(* Model of the requirement/offering flattening and scoring engine, the    *)
(* package ranker, the per-venue reduction, the builders of the trees and  *)
(* the item popularity analyzer of src/app.py.                             *)
(*                                                                         *)
(* Strings are sequences of one-character strings, so that the '|' join of *)
(* a FlatKey and its split are computed character by character.  A Python  *)
(* dict is an insertion-ordered sequence of <<key, value>> pairs.  A float *)
(* ratio n/d is the exact fraction <<n, d>> (d > 0); rounding to two       *)
(* decimals is computed on the exact fraction.                             *)
(***************************************************************************)
EXTENDS Integers, Sequences, FiniteSets, TLC

VARIABLES pc, user_req, restaurant, match,
          restaurant_packages, match_results, response

(* locals of flatten_requirements, flatten_restaurant and score_restaurants *)
VARIABLES flat_req, total_items, flat_offerings, scored_matches

(* the settings of the matcher: self.threshold and self.top_n *)
VARIABLES threshold, top_n

(* the upstream count data handed to the builders of the trees *)
VARIABLES counts_data

(* the subcategories of one cuisine as upstream sends them, and the        *)
(* cuisine built from them                                                 *)
VARIABLES subcategory_list, built_cuisine

(* the batch handed to ItemPopularityAnalyzer, the fields of the analyzer   *)
(* and the number of analyze_variants calls made on it                     *)
VARIABLES variants_data, item_stats, total_variants, debug_info, analyzer_calls

scorerVars == <<flat_req, total_items, flat_offerings, scored_matches>>

matcherVars == <<threshold, top_n>>

parserVars == <<counts_data, subcategory_list, built_cuisine>>

analyzerVars == <<variants_data, item_stats, total_variants, debug_info, analyzer_calls>>

vars == <<pc, user_req, restaurant, match,
          restaurant_packages, match_results, response,
          scorerVars, matcherVars, parserVars, analyzerVars>>

----------------------------------------------------------------------------
(* Bounds of the model *)

(* the largest total quantity of a tree *)
MaxTotal == 3

----------------------------------------------------------------------------
(* Names and item paths (category, cuisine, subcategory, item) *)

Sep == "|"

Mains == <<"M">>

Dessert == <<"D">>

Indian == <<"I">>

Thai == <<"T">>

Curry == <<"C">>

Bread == <<"B">>

Sweet == <<"S">>

Paneer == <<"P">>

Dal == <<"L">>

Naan == <<"N">>

Kheer == <<"K">>

(* an item name that itself contains the separator character *)
PaneerTikka == <<"P", "|", "T">>

(* a subcategory name that contains the separator character *)
CurryPaneer == <<"C", "|", "P">>

Tikka == <<"T">>

PaneerPath == <<Mains, Indian, Curry, Paneer>>

DalPath == <<Mains, Indian, Curry, Dal>>

TikkaPath == <<Mains, Indian, Curry, PaneerTikka>>

NaanPath == <<Mains, Indian, Bread, Naan>>

ThaiPath == <<Mains, Thai, Curry, Paneer>>

KheerPath == <<Dessert, Indian, Sweet, Kheer>>

(* item "T" of subcategory "C|P": another tuple than TikkaPath *)
TikkaSplitPath == <<Mains, Indian, CurryPaneer, Tikka>>

(* the order in which the nested dicts of a tree are traversed *)
AllPaths == <<PaneerPath, DalPath, TikkaPath, NaanPath, ThaiPath, KheerPath,
              TikkaSplitPath>>

(* the item paths of the trees that are scored *)
Paths == {PaneerPath, DalPath, TikkaPath, NaanPath, ThaiPath, KheerPath}

(* A tree (UserRequirement.categories / RestaurantPackage.categories) is   *)
(* the function from the item paths it holds to their counts.              *)
RECURSIVE TreeTotalFrom(_, _)
TreeTotalFrom(tree, i) ==
    IF i > Len(AllPaths) THEN 0
    ELSE (IF AllPaths[i] \in DOMAIN tree THEN tree[AllPaths[i]] ELSE 0)
         + TreeTotalFrom(tree, i + 1)

TreeTotal(tree) == TreeTotalFrom(tree, 1)

IsTree(tree) ==
    /\ DOMAIN tree \subseteq Paths
    /\ \A p \in DOMAIN tree : tree[p] >= 1
    /\ TreeTotal(tree) <= MaxTotal

Trees == {t \in UNION {[S -> 1..MaxTotal] : S \in SUBSET Paths} : IsTree(t)}

EmptyTree == [p \in {} |-> 0]

(* the trees of the spec's concrete scenarios: Paneer 10 against 6 and 15 *)
ScenarioReq == [p \in {PaneerPath} |-> 10]

ScenarioShort == [p \in {PaneerPath} |-> 6]

ScenarioOver == [p \in {PaneerPath} |-> 15]

----------------------------------------------------------------------------
(* Python dict as an insertion-ordered sequence of <<key, value>> pairs *)

RECURSIVE DictIndex(_, _, _)
DictIndex(d, k, i) ==
    IF i > Len(d) THEN 0
    ELSE IF d[i][1] = k THEN i
    ELSE DictIndex(d, k, i + 1)

DictHas(d, k) == DictIndex(d, k, 1) # 0

DictGet(d, k, default) ==
    LET i == DictIndex(d, k, 1) IN IF i = 0 THEN default ELSE d[i][2]

DictPut(d, k, v) ==
    LET i == DictIndex(d, k, 1)
    IN  IF i = 0 THEN Append(d, <<k, v>>) ELSE [d EXCEPT ![i] = <<k, v>>]

(* d[k] += v on a defaultdict(int) / defaultdict(float) *)
DictAdd(d, k, v) == DictPut(d, k, DictGet(d, k, 0) + v)

DictKeys(d) == {d[i][1] : i \in 1..Len(d)}

----------------------------------------------------------------------------
(* f"{cat_name}|{cuisine_name}|{subcat_name}|{item_type}" and key.split('|') *)

FlatKey(path) ==
    path[1] \o <<Sep>> \o path[2] \o <<Sep>> \o path[3] \o <<Sep>> \o path[4]

RECURSIVE SplitFrom(_, _, _)
SplitFrom(s, i, cur) ==
    IF i > Len(s) THEN <<cur>>
    ELSE IF s[i] = Sep THEN <<cur>> \o SplitFrom(s, i + 1, <<>>)
    ELSE SplitFrom(s, i + 1, Append(cur, s[i]))

Split(s) == SplitFrom(s, 1, <<>>)

HasSep(s) == \E i \in 1..Len(s) : s[i] = Sep

(* the items of a tree in traversal order *)
RECURSIVE TreeItems(_, _)
TreeItems(tree, i) ==
    IF i > Len(AllPaths) THEN <<>>
    ELSE IF AllPaths[i] \in DOMAIN tree
         THEN <<AllPaths[i]>> \o TreeItems(tree, i + 1)
         ELSE TreeItems(tree, i + 1)

RECURSIVE FlattenLoop(_, _, _, _)
FlattenLoop(tree, items, i, acc) ==
    IF i > Len(items) THEN acc
    ELSE LET count == tree[items[i]]
         IN  IF count > 0
             THEN FlattenLoop(tree, items, i + 1,
                      [flat  |-> DictPut(acc.flat, FlatKey(items[i]), count),
                       total |-> acc.total + count])
             ELSE FlattenLoop(tree, items, i + 1, acc)

(* the dict and the total survive from the previous call *)
FlattenStartKept == [flat |-> flat_req, total |-> total_items]

(* flat_req = {} and total_items = 0: every call starts from fresh locals *)
FlattenStart == [flat |-> <<>>, total |-> 0]

(* the total counts the keys instead of adding up their quantities *)
flatten_requirements_counting(tree) ==
    LET r == FlattenLoop(tree, TreeItems(tree, 1), 1, FlattenStart)
    IN  [flat |-> r.flat, total |-> Len(r.flat)]

(* returns (flat_req, total_items) *)
flatten_requirements(tree) ==
    FlattenLoop(tree, TreeItems(tree, 1), 1, FlattenStart)

flatten_restaurant(tree) ==
    FlattenLoop(tree, TreeItems(tree, 1), 1, FlattenStart).flat

----------------------------------------------------------------------------
(* Exact fractions <<n, d>>, d > 0, standing for Python floats *)

FracLeq(a, b) == a[1] * b[2] <= b[1] * a[2]

FracEq(a, b) == a[1] * b[2] = b[1] * a[2]

FracLess(a, b) == a[1] * b[2] < b[1] * a[2]

(* round(n / d, 0) to the nearest integer, ties to even, for n >= 0, d > 0 *)
RoundHalfEven(n, d) ==
    LET q == n \div d
        r == n % d
    IN  IF 2 * r < d THEN q
        ELSE IF 2 * r > d THEN q + 1
        ELSE IF q % 2 = 0 THEN q ELSE q + 1

(* round(x * 100, 2) for x = n / d, as a whole number of hundredths *)
RoundPercent(x) == RoundHalfEven(x[1] * 10000, x[2])

----------------------------------------------------------------------------
(* OptimizedRestaurantMatcher.calculate_match *)

(* the ratio is not capped at 1.0 *)
ItemMatchUncapped(rest_count, user_count) ==
    IF user_count > 0 THEN <<rest_count, user_count>> ELSE <<0, 1>>

(* item_match of one requirement key *)
ItemMatch(rest_count, user_count) ==
    IF rest_count >= user_count THEN <<1, 1>>
    ELSE IF user_count > 0 THEN <<rest_count, user_count>> ELSE <<0, 1>>

(* matched_items += rest_count in both branches *)
MatchedAddUncapped(rest_count, user_count) == rest_count

(* the branch rest_count >= user_count forgets to add to matched_items *)
MatchedAddElseOnly(rest_count, user_count) ==
    IF rest_count >= user_count THEN 0 ELSE rest_count

(* what the key adds to matched_items *)
MatchedAdd(rest_count, user_count) ==
    IF rest_count >= user_count THEN user_count ELSE rest_count

(* "<=" written for "<" in both tests *)
IsShortOrEqual(rest_count, user_count) == rest_count <= user_count

(* whether the key gets an UnmetRequirement: the else branch of           *)
(* rest_count >= user_count, then "if rest_count < user_count"             *)
IsShort(rest_count, user_count) ==
    ~(rest_count >= user_count) /\ rest_count < user_count

(* the requested quantity is added whatever the item's ratio *)
WeightedFull(item_match, user_count) == user_count

(* item_match * user_count; the division is exact *)
Weighted(item_match, user_count) == (item_match[1] * user_count) \div item_match[2]

(* the shortfall holds what is offered, not what is missing *)
UnmetEntryOffered(parts, user_count, rest_count) ==
    [level       |-> "item",
     category    |-> parts[1],
     cuisine     |-> parts[2],
     subcategory |-> parts[3],
     item_type   |-> parts[4],
     requested   |-> user_count,
     available   |-> rest_count,
     shortfall   |-> rest_count]

UnmetEntry(parts, user_count, rest_count) ==
    [level       |-> "item",
     category    |-> parts[1],
     cuisine     |-> parts[2],
     subcategory |-> parts[3],
     item_type   |-> parts[4],
     requested   |-> user_count,
     available   |-> rest_count,
     shortfall   |-> user_count - rest_count]

(* the three aggregation keys of a split key, in the order the code uses them *)
AggKeys(parts) ==
    << parts[1],
       parts[1] \o <<Sep>> \o parts[2],
       parts[1] \o <<Sep>> \o parts[2] \o <<Sep>> \o parts[3] >>

AddAll(d, keys, v) == DictAdd(DictAdd(DictAdd(d, keys[1], v), keys[2], v), keys[3], v)

(* unmet_requirements is one list shared by all calls, as a mutable        *)
(* default argument would be                                               *)
MatchStartShared ==
    [raised                    |-> FALSE,
     matched_items             |-> 0,
     category_matches          |-> <<>>,
     category_totals           |-> <<>>,
     category_restaurant_totals |-> <<>>,
     unmet_requirements        |->
         IF scored_matches = <<>> THEN <<>>
         ELSE scored_matches[Len(scored_matches)][3].unmet_requirements]

(* matched_items = 0, three fresh defaultdicts, unmet_requirements = [] *)
MatchStart ==
    [raised                    |-> FALSE,
     matched_items             |-> 0,
     category_matches          |-> <<>>,
     category_totals           |-> <<>>,
     category_restaurant_totals |-> <<>>,
     unmet_requirements        |-> <<>>]

(* for key, user_count in flat_user_req.items(): ... *)
RECURSIVE RequirementLoop(_, _, _, _)
RequirementLoop(flat_user_req, flat_restaurant, i, acc) ==
    IF i > Len(flat_user_req) \/ acc.raised THEN acc
    ELSE LET key        == flat_user_req[i][1]
             user_count == flat_user_req[i][2]
             rest_count == DictGet(flat_restaurant, key, 0)
             parts      == Split(key)
         IN  IF Len(parts) # 4
             THEN [acc EXCEPT !.raised = TRUE]
             ELSE LET item_match == ItemMatch(rest_count, user_count)
                      keys       == AggKeys(parts)
                  IN  RequirementLoop(flat_user_req, flat_restaurant, i + 1,
                        [raised        |-> FALSE,
                         matched_items |-> acc.matched_items
                                             + MatchedAdd(rest_count, user_count),
                         category_matches |->
                             AddAll(acc.category_matches, keys,
                                    Weighted(item_match, user_count)),
                         category_totals |->
                             AddAll(acc.category_totals, keys, user_count),
                         category_restaurant_totals |->
                             AddAll(acc.category_restaurant_totals, keys, rest_count),
                         unmet_requirements |->
                             IF IsShort(rest_count, user_count)
                             THEN Append(acc.unmet_requirements,
                                         UnmetEntry(parts, user_count, rest_count))
                             ELSE acc.unmet_requirements])

(* the second loop is left out: only requested keys count as offered *)
OfferingLoopSkipped(flat_user_req, flat_restaurant, i, acc) == acc

(* for key, rest_count in flat_restaurant.items(): keys the requirement lacks *)
RECURSIVE OfferingLoop(_, _, _, _)
OfferingLoop(flat_user_req, flat_restaurant, i, acc) ==
    IF i > Len(flat_restaurant) \/ acc.raised THEN acc
    ELSE LET key        == flat_restaurant[i][1]
             rest_count == flat_restaurant[i][2]
         IN  IF ~DictHas(flat_user_req, key) /\ rest_count > 0
             THEN LET parts == Split(key)
                  IN  IF Len(parts) # 4
                      THEN [acc EXCEPT !.raised = TRUE]
                      ELSE OfferingLoop(flat_user_req, flat_restaurant, i + 1,
                             [acc EXCEPT !.category_restaurant_totals =
                                 AddAll(@, AggKeys(parts), rest_count)])
             ELSE OfferingLoop(flat_user_req, flat_restaurant, i + 1, acc)

(* the division by category_totals[key] is left out *)
RatioLoopUndivided(category_matches, category_totals, i) ==
    [n \in 1..Len(category_matches) |->
        <<category_matches[n][1], <<category_matches[n][2], 1>> >>]

(* category_matches[key] / category_totals[key] for every key *)
RECURSIVE RatioLoop(_, _, _)
RatioLoop(category_matches, category_totals, i) ==
    IF i > Len(category_matches) THEN <<>>
    ELSE LET key   == category_matches[i][1]
             total == DictGet(category_totals, key, 0)
         IN  << <<key, IF total > 0 THEN <<category_matches[i][2], total>>
                                    ELSE <<category_matches[i][2], 1>> >> >>
             \o RatioLoop(category_matches, category_totals, i + 1)

(* the test "'|' not in key" is left out *)
IsAnyKey(key) == TRUE

(* whether a key of category_totals is examined by the over-fulfillment pass *)
IsCategoryKey(key) == ~HasSep(key)

(* whether an examined category gets an entry *)
IsOver(user_total, rest_total) == user_total > 0 /\ rest_total > user_total

OverEntry(key, user_total, rest_total) ==
    [category_name     |-> key,
     user_requested    |-> user_total,
     restaurant_offers |-> rest_total,
     match_percentage  |-> RoundHalfEven(rest_total * 10000, user_total),
     additional_items  |-> rest_total - user_total]

RECURSIVE OverLoop(_, _, _)
OverLoop(category_totals, category_restaurant_totals, i) ==
    IF i > Len(category_totals) THEN <<>>
    ELSE LET key        == category_totals[i][1]
             user_total == DictGet(category_totals, key, 0)
             rest_total == DictGet(category_restaurant_totals, key, 0)
             rest       == OverLoop(category_totals, category_restaurant_totals, i + 1)
         IN  IF IsCategoryKey(key) /\ IsOver(user_total, rest_total)
             THEN << <<key, OverEntry(key, user_total, rest_total)>> >> \o rest
             ELSE rest

(* the division is not guarded *)
OverallMatchUnguarded(matched_items, total_user_items) ==
    <<matched_items, total_user_items>>

OverallMatch(matched_items, total_user_items) ==
    IF total_user_items > 0 THEN <<matched_items, total_user_items>> ELSE <<0, 1>>

Raised == [raised |-> TRUE]

(* returns (overall_match, category_matches, unmet_requirements,           *)
(* over_100_categories), or raises ValueError when a key does not split    *)
(* into four parts                                                         *)
calculate_match(flat_user_req, flat_restaurant, total_user_items) ==
    LET a == RequirementLoop(flat_user_req, flat_restaurant, 1, MatchStart)
        b == OfferingLoop(flat_user_req, flat_restaurant, 1, a)
    IN  IF b.raised THEN Raised
        ELSE [raised              |-> FALSE,
              overall_match       |-> OverallMatch(b.matched_items, total_user_items),
              category_matches    |-> RatioLoop(b.category_matches, b.category_totals, 1),
              unmet_requirements  |-> b.unmet_requirements,
              over_100_categories |->
                  OverLoop(b.category_totals, b.category_restaurant_totals, 1)]

(* each requirement key is counted down by what the package offers of it *)
RECURSIVE ReqAfterMatchConsumed(_, _)
ReqAfterMatchConsumed(flat_user_req, flat_restaurant) ==
    IF flat_user_req = <<>> THEN <<>>
    ELSE LET key        == Head(flat_user_req)[1]
             user_count == Head(flat_user_req)[2]
             rest_count == DictGet(flat_restaurant, key, 0)
         IN  << <<key, user_count - MatchedAdd(rest_count, user_count)>> >>
             \o ReqAfterMatchConsumed(Tail(flat_user_req), flat_restaurant)

(* the caller's flat_user_req after a call of calculate_match: the dict is *)
(* only read (items(), "in"), never assigned to                            *)
ReqAfterMatch(flat_user_req, flat_restaurant) == flat_user_req

(* flatten both trees and score them, as score_restaurants does per package *)
ScoreTree(req, offer) ==
    LET fr == flatten_requirements(req)
    IN  calculate_match(fr.flat, flatten_restaurant(offer), fr.total)

----------------------------------------------------------------------------
(* Scoring one requirement against one offering *)

NoMatch == [raised |-> FALSE, pending |-> TRUE]

NoResponse == [status |-> "none"]

(* the variables of the parts that take no part in a specification *)
UnusedScorer ==
    /\ flat_req = <<>>
    /\ total_items = 0
    /\ flat_offerings = <<>>
    /\ scored_matches = <<>>

(* OptimizedRestaurantMatcher.__init__: threshold = 0.7, top_n = 10 *)
DefaultMatcher ==
    /\ threshold = <<7, 10>>
    /\ top_n = 10

NoCuisine == [built |-> FALSE, subcategories |-> <<>>, contains_egg |-> FALSE]

UnusedCuisine ==
    /\ subcategory_list = <<>>
    /\ built_cuisine = NoCuisine

UnusedParser == counts_data = <<>> /\ UnusedCuisine

UnusedAnalyzer ==
    /\ variants_data = <<>>
    /\ item_stats = <<>>
    /\ total_variants = 0
    /\ debug_info = <<>>
    /\ analyzer_calls = 0

MatchInputs ==
    (Trees \X Trees) \cup ({ScenarioReq} \X {ScenarioShort, ScenarioOver})

(* o2 is o with the quantity of exactly one item raised (an absent item    *)
(* counts as quantity 0)                                                   *)
IsSingleIncrease(o, o2, p) ==
    /\ p \in DOMAIN o2
    /\ DOMAIN o2 = DOMAIN o \cup {p}
    /\ IF p \in DOMAIN o THEN o2[p] > o[p] ELSE o2[p] > 0
    /\ \A q \in DOMAIN o : q # p => o2[q] = o[q]

InitMatch ==
    /\ pc = "ready"
    /\ \E input \in MatchInputs :
          /\ user_req = input[1]
          /\ restaurant = input[2]
    /\ match = NoMatch
    /\ restaurant_packages = <<>>
    /\ match_results = <<>>
    /\ response = NoResponse
    /\ UnusedScorer /\ DefaultMatcher /\ UnusedParser /\ UnusedAnalyzer

(* one call of calculate_match on the flattened trees *)
CalculateMatch ==
    /\ pc = "ready"
    /\ match' = ScoreTree(user_req, restaurant)
    /\ pc' = "scored"
    /\ UNCHANGED <<user_req, restaurant, restaurant_packages, match_results, response>>
    /\ UNCHANGED <<scorerVars, matcherVars, parserVars, analyzerVars>>

(* the same requirement scored again after one offered quantity was raised *)
IncreaseOffered ==
    /\ pc = "scored"
    /\ \E p \in Paths, q \in (1..MaxTotal) \cup {ScenarioOver[PaneerPath]} :
          LET o2 == [x \in DOMAIN restaurant \cup {p} |->
                        IF x = p THEN q ELSE restaurant[x]]
          IN  /\ IsTree(o2) \/ o2 = ScenarioOver
              /\ IsSingleIncrease(restaurant, o2, p)
              /\ restaurant' = o2
              /\ match' = ScoreTree(user_req, o2)
    /\ pc' = "rescored"
    /\ UNCHANGED <<user_req, restaurant_packages, match_results, response>>
    /\ UNCHANGED <<scorerVars, matcherVars, parserVars, analyzerVars>>

NextMatch == CalculateMatch \/ IncreaseOffered

SpecMatch == InitMatch /\ [][NextMatch]_vars

----------------------------------------------------------------------------
(* OptimizedRestaurantMatcher.score_restaurants *)

MatchResult(package, m) ==
    [restaurant_id       |-> package.id,
     overall_match       |-> m.overall_match,
     category_matches    |-> m.category_matches,
     unmet_requirements  |-> m.unmet_requirements,
     over_100_categories |-> m.over_100_categories,
     venue_id            |-> package.venue_id]

(* all_matches: one (overall_match, restaurant.id, match_result) per       *)
(* package, or the exception calculate_match raised                        *)
RECURSIVE ScoreLoop(_, _, _, _, _)
ScoreLoop(flat_user_req, total_user_items, packages, i, all_matches) ==
    IF i > Len(packages) THEN [raised |-> FALSE, all_matches |-> all_matches]
    ELSE LET package == packages[i]
             m == calculate_match(flat_user_req,
                                  flatten_restaurant(package.categories),
                                  total_user_items)
         IN  IF m.raised THEN [raised |-> TRUE, all_matches |-> <<>>]
             ELSE ScoreLoop(flat_user_req, total_user_items, packages, i + 1,
                      Append(all_matches,
                             <<m.overall_match, package.id,
                               MatchResult(package, m)>>))

(* the place of x in a list sorted by descending key that keeps equal keys *)
(* in their original order: after every element whose key is >= x's        *)
RECURSIVE InsertDescStable(_, _, _)
InsertDescStable(sorted, x, i) ==
    IF i > Len(sorted) THEN Append(sorted, x)
    ELSE IF FracLess(sorted[i][1], x[1])
         THEN SubSeq(sorted, 1, i - 1) \o <<x>> \o SubSeq(sorted, i, Len(sorted))
         ELSE InsertDescStable(sorted, x, i + 1)

(* as above, but x goes before the elements of equal key *)
RECURSIVE InsertDescReversing(_, _, _)
InsertDescReversing(sorted, x, i) ==
    IF i > Len(sorted) THEN Append(sorted, x)
    ELSE IF FracLeq(sorted[i][1], x[1])
         THEN SubSeq(sorted, 1, i - 1) \o <<x>> \o SubSeq(sorted, i, Len(sorted))
         ELSE InsertDescReversing(sorted, x, i + 1)

RECURSIVE SortWith(_, _, _)
SortWith(list, i, sorted) ==
    IF i > Len(list) THEN sorted
    ELSE SortWith(list, i + 1, InsertDescStable(sorted, list[i], 1))

RECURSIVE SortReversingWith(_, _, _)
SortReversingWith(list, i, sorted) ==
    IF i > Len(list) THEN sorted
    ELSE SortReversingWith(list, i + 1, InsertDescReversing(sorted, list[i], 1))

(* an ascending sort followed by a reversal: equal keys come out reversed *)
SortedAscendingThenReversed(all_matches) == SortReversingWith(all_matches, 1, <<>>)

(* sorted(all_matches, key=lambda x: x[0], reverse=True) *)
SortedByRatioDesc(all_matches) == SortWith(all_matches, 1, <<>>)

score_restaurants(req, packages) ==
    LET fr     == flatten_requirements(req)
        scored == ScoreLoop(fr.flat, fr.total, packages, 1, <<>>)
    IN  IF scored.raised THEN [raised |-> TRUE, results |-> <<>>]
        ELSE LET sorted_matches == SortedByRatioDesc(scored.all_matches)
             IN  [raised  |-> FALSE,
                  results |-> [i \in 1..Len(sorted_matches) |-> sorted_matches[i][3]]]

----------------------------------------------------------------------------
(* heapq on tuples (-match_percentage, restaurant_id, simplified_result) *)

(* only the first component is compared *)
TupleLessScoreOnly(a, b) ==
    IF a[1] # b[1] THEN (IF a[1] < b[1] THEN "lt" ELSE "ge") ELSE "ge"

(* a < b on the tuples: "lt", "ge", or "error" when the first two          *)
(* components are equal and the dicts differ (dict < dict is a TypeError)  *)
TupleLess(a, b) ==
    IF a[1] # b[1] THEN (IF a[1] < b[1] THEN "lt" ELSE "ge")
    ELSE IF a[2] # b[2] THEN (IF a[2] < b[2] THEN "lt" ELSE "ge")
    ELSE IF a[3] # b[3] THEN "error"
    ELSE "ge"

(* heapq._siftdown(heap, startpos, pos), positions counted from 0 *)
RECURSIVE SiftDown(_, _, _, _)
SiftDown(heap, startpos, pos, newitem) ==
    IF pos > startpos
    THEN LET parentpos == (pos - 1) \div 2
             parent    == heap[parentpos + 1]
             c         == TupleLess(newitem, parent)
         IN  IF c = "error" THEN [raised |-> TRUE, heap |-> heap]
             ELSE IF c = "lt"
                  THEN SiftDown([heap EXCEPT ![pos + 1] = parent],
                                startpos, parentpos, newitem)
                  ELSE [raised |-> FALSE, heap |-> [heap EXCEPT ![pos + 1] = newitem]]
    ELSE [raised |-> FALSE, heap |-> [heap EXCEPT ![pos + 1] = newitem]]

heappush(heap, item) ==
    LET h == Append(heap, item)
    IN  SiftDown(h, 0, Len(h) - 1, item)

(* heapq._siftup(heap, pos): bubble the smaller child up to a leaf, then   *)
(* sift newitem down from there                                            *)
RECURSIVE SiftUp(_, _, _, _)
SiftUp(heap, startpos, pos, newitem) ==
    LET endpos   == Len(heap)
        childpos == 2 * pos + 1
        rightpos == childpos + 1
    IN  IF childpos < endpos
        THEN LET c == IF rightpos < endpos
                      THEN TupleLess(heap[childpos + 1], heap[rightpos + 1])
                      ELSE "lt"
                 child == IF c = "lt" THEN childpos ELSE rightpos
             IN  IF c = "error" THEN [raised |-> TRUE, heap |-> heap]
                 ELSE SiftUp([heap EXCEPT ![pos + 1] = heap[child + 1]],
                             startpos, child, newitem)
        ELSE SiftDown([heap EXCEPT ![pos + 1] = newitem], startpos, pos, newitem)

(* returns the smallest item and the heap left, for a non-empty heap *)
heappop(heap) ==
    LET lastelt == heap[Len(heap)]
        rest    == SubSeq(heap, 1, Len(heap) - 1)
    IN  IF rest # <<>>
        THEN LET r == SiftUp([rest EXCEPT ![1] = lastelt], 0, 0, lastelt)
             IN  [raised |-> r.raised, item |-> rest[1], heap |-> r.heap]
        ELSE [raised |-> FALSE, item |-> lastelt, heap |-> rest]

----------------------------------------------------------------------------
(* match_restaurants_integrated, from the call of score_restaurants on *)

NoVenue == <<>>

SimplifiedResult(result) ==
    [variant_id          |-> result.restaurant_id,
     match_percentage    |-> RoundPercent(result.overall_match),
     unmet_requirements  |-> result.unmet_requirements,
     over_100_categories |-> result.over_100_categories,
     venue_id            |-> result.venue_id]

(* the sign of the heap key is dropped: the heap yields the lowest score *)
HeapEntryAscending(simplified_result) ==
    <<simplified_result.match_percentage, simplified_result.variant_id,
      simplified_result>>

(* (-match_percentage, result.restaurant_id, simplified_result) *)
HeapEntry(simplified_result) ==
    <<0 - simplified_result.match_percentage, simplified_result.variant_id,
      simplified_result>>

(* the test is left out: every record is pushed on the heap of its venue id *)
HasVenueAlways(venue_id) == TRUE

(* "if venue_id:": an empty or absent venue id is false *)
HasVenue(venue_id) == venue_id # NoVenue

(* for result in match_results: ... heapq.heappush(venue_heaps[venue_id], ...) *)
RECURSIVE ResultLoop(_, _, _)
ResultLoop(results, i, acc) ==
    IF i > Len(results) \/ acc.raised THEN acc
    ELSE LET simplified_result == SimplifiedResult(results[i])
             venue_id == results[i].venue_id
             simplified_results == Append(acc.simplified_results, simplified_result)
         IN  IF HasVenue(venue_id)
             THEN LET pushed == heappush(DictGet(acc.venue_heaps, venue_id, <<>>),
                                         HeapEntry(simplified_result))
                  IN  ResultLoop(results, i + 1,
                        [raised             |-> pushed.raised,
                         simplified_results |-> simplified_results,
                         venue_heaps        |->
                             DictPut(acc.venue_heaps, venue_id, pushed.heap)])
             ELSE ResultLoop(results, i + 1,
                        [acc EXCEPT !.simplified_results = simplified_results])

(* for venue_id, heap in venue_heaps.items(): best_match = heappop(heap) *)
RECURSIVE VenueLoop(_, _, _)
VenueLoop(venue_heaps, i, acc) ==
    IF i > Len(venue_heaps) \/ acc.raised THEN acc
    ELSE LET venue_id == venue_heaps[i][1]
             heap     == venue_heaps[i][2]
         IN  IF heap # <<>>
             THEN LET popped == heappop(heap)
                  IN  VenueLoop(venue_heaps, i + 1,
                        [raised |-> popped.raised,
                         venue_matches |->
                           Append(acc.venue_matches,
                             [venue_id         |-> venue_id,
                              match_percentage |-> popped.item[3].match_percentage,
                              best_variant_id  |-> popped.item[3].variant_id])])
             ELSE VenueLoop(venue_heaps, i + 1, acc)

(* reverse=True is left out: the sort is ascending *)
SortedByPercentAsc(venue_matches) ==
    SortWith([i \in 1..Len(venue_matches) |->
                 <<<<0 - venue_matches[i].match_percentage, 1>>, venue_matches[i]>>],
             1, <<>>)

(* venue_matches.sort(key=lambda x: x['match_percentage'], reverse=True) *)
SortedByPercentDesc(venue_matches) ==
    SortWith([i \in 1..Len(venue_matches) |->
                 <<<<venue_matches[i].match_percentage, 1>>, venue_matches[i]>>],
             1, <<>>)

ErrorResponse == [status |-> "error"]

(* the response built from match_results, or the error response of         *)
(* handle_api_error when a heap operation raised                           *)
ReduceResponse(results) ==
    LET a == ResultLoop(results, 1,
                 [raised |-> FALSE, simplified_results |-> <<>>, venue_heaps |-> <<>>])
        b == VenueLoop(a.venue_heaps, 1, [raised |-> a.raised, venue_matches |-> <<>>])
    IN  IF b.raised THEN ErrorResponse
        ELSE LET sorted == SortedByPercentDesc(b.venue_matches)
             IN  [status        |-> "success",
                  matches       |-> a.simplified_results,
                  venue_matches |-> [i \in 1..Len(sorted) |-> sorted[i][2]]]

----------------------------------------------------------------------------
(* Quantities read off the two trees, independently of the flattened form  *)

Requested(p) == IF p \in DOMAIN user_req /\ user_req[p] > 0 THEN user_req[p] ELSE 0

OfferedQty(p) ==
    IF p \in DOMAIN restaurant /\ restaurant[p] > 0 THEN restaurant[p] ELSE 0

Min(a, b) == IF a <= b THEN a ELSE b

ReqPaths == {p \in Paths : Requested(p) > 0}

ShortPaths == {p \in ReqPaths : OfferedQty(p) < Requested(p)}

RECURSIVE PathSumFrom(_, _, _)
PathSumFrom(f, S, i) ==
    IF i > Len(AllPaths) THEN 0
    ELSE (IF AllPaths[i] \in S THEN f[AllPaths[i]] ELSE 0) + PathSumFrom(f, S, i + 1)

PathSum(f, S) == PathSumFrom(f, S, 1)

RequestedFn == [p \in Paths |-> Requested(p)]

OfferedFn == [p \in Paths |-> OfferedQty(p)]

MatchedFn == [p \in Paths |-> Min(OfferedQty(p), Requested(p))]

Categories == {Mains, Dessert}

UnderCategory(c) == {p \in Paths : p[1] = c}

ReqTotal(c) == PathSum(RequestedFn, UnderCategory(c))

OffTotal(c) == PathSum(OfferedFn, UnderCategory(c))

(* calculate_match returned a result (it did not raise) *)
Returned == pc \in {"scored", "rescored"} /\ ~match.raised

AllMet == \A p \in ReqPaths : OfferedQty(p) >= Requested(p)

One == <<1, 1>>

InUnit(x) == 0 <= x[1] /\ x[1] <= x[2] /\ x[2] > 0

----------------------------------------------------------------------------
(* C1, as claimed: for every requirement, the empty one included, a        *)
(* returned overall ratio is 1 exactly when every requirement key is       *)
(* offered in at least the requested quantity.                             *)
C1_OverallOneIffAllMet_AnyRequirement ==
    Returned => (FracEq(match.overall_match, One) <=> AllMet)

(* C1, amended: for every requirement that requests at least one item, a   *)
(* returned overall ratio is 1 exactly when every requirement key is       *)
(* offered in at least the requested quantity.                             *)
C1_OverallOneIffAllMet ==
    (Returned /\ ReqPaths # {}) => (FracEq(match.overall_match, One) <=> AllMet)

C1_Witness ==
    /\ Returned
    /\ Cardinality(ReqPaths) >= 2
    /\ AllMet
    /\ \E p \in ReqPaths : OfferedQty(p) > Requested(p)
    /\ FracEq(match.overall_match, One)

(* C2: the overall ratio and the ratio at every aggregation key of a       *)
(* returned result lie in [0, 1].                                          *)
C2_RatiosInUnitInterval ==
    Returned =>
        /\ InUnit(match.overall_match)
        /\ \A i \in 1..Len(match.category_matches) :
              InUnit(match.category_matches[i][2])

(* a result whose OverFulfillment percentage exceeds 100 while a ratio is  *)
(* strictly inside (0, 1)                                                  *)
C2_Witness ==
    /\ Returned
    /\ \E i \in 1..Len(match.over_100_categories) :
          match.over_100_categories[i][2].match_percentage > 10000
    /\ \E i \in 1..Len(match.category_matches) :
          /\ FracLess(<<0, 1>>, match.category_matches[i][2])
          /\ FracLess(match.category_matches[i][2], One)

IsShortScenario == user_req = ScenarioReq /\ restaurant = ScenarioShort

IsOverScenario == user_req = ScenarioReq /\ restaurant = ScenarioOver

(* C3: for a requirement that requests at least one item, the returned     *)
(* overall ratio is the sum over the requirement keys of min(offered,      *)
(* requested) divided by the total requested quantity; Paneer 10 against   *)
(* Paneer 6 gives 6/10, one UnmetRequirement of shortfall 4 and no         *)
(* OverFulfillment.                                                        *)
C3_OverallIsMatchedOverTotal ==
    (Returned /\ ReqPaths # {}) =>
        /\ FracEq(match.overall_match,
                  <<PathSum(MatchedFn, ReqPaths), PathSum(RequestedFn, ReqPaths)>>)
        /\ IsShortScenario =>
              /\ FracEq(match.overall_match, <<6, 10>>)
              /\ Len(match.unmet_requirements) = 1
              /\ match.unmet_requirements[1].shortfall = 4
              /\ match.over_100_categories = <<>>

C3_Witness ==
    /\ Returned
    /\ IsShortScenario
    /\ FracEq(match.overall_match, <<6, 10>>)

(* the items whose offered quantity the step raised *)
RaisedPaths ==
    {p \in DOMAIN restaurant' :
        IF p \in DOMAIN restaurant THEN restaurant'[p] > restaurant[p] ELSE TRUE}

IsPrefixKey(key, p) == \E n \in 1..3 : key = AggKeys(p)[n]

(* C4: raising the offered quantity of one item, the requirement and every *)
(* other quantity unchanged, lowers neither the overall ratio nor the      *)
(* ratio of any aggregation key that is a prefix of the item's key.        *)
C4_Monotone ==
    [][ (pc = "scored" /\ pc' = "rescored" /\ ~match.raised /\ ~match'.raised) =>
          /\ FracLeq(match.overall_match, match'.overall_match)
          /\ \A i \in 1..Len(match.category_matches) :
                LET key == match.category_matches[i][1]
                IN  (\E p \in RaisedPaths : IsPrefixKey(key, p)) =>
                        /\ DictHas(match'.category_matches, key)
                        /\ FracLeq(match.category_matches[i][2],
                                   DictGet(match'.category_matches, key, <<0, 1>>))
      ]_vars

(* a result computed after a raise, with a partly met requirement key      *)
(* under the same subcategory as an offered one                            *)
C4_Witness ==
    /\ pc = "rescored"
    /\ ~match.raised
    /\ FracLess(<<0, 1>>, match.overall_match)
    /\ FracLess(match.overall_match, One)
    /\ Len(match.category_matches) >= 3

(* C8: a category has an entry in over_100_categories exactly when its     *)
(* requested total is positive and its offered total is larger; no entry   *)
(* has a key other than a category name.                                   *)
C8_OverIffOfferedExceedsRequested ==
    Returned =>
        /\ \A c \in Categories :
              DictHas(match.over_100_categories, c)
                  <=> (ReqTotal(c) > 0 /\ OffTotal(c) > ReqTotal(c))
        /\ DictKeys(match.over_100_categories) \subseteq Categories

(* Mains over-fulfilled at category level only, Dessert offered but never  *)
(* requested                                                               *)
C8_Witness ==
    /\ Returned
    /\ DictHas(match.over_100_categories, Mains)
    /\ \E p \in ReqPaths : p[1] = Mains /\ OfferedQty(p) > Requested(p)
    /\ ReqTotal(Dessert) = 0
    /\ OffTotal(Dessert) > 0
    /\ ~DictHas(match.over_100_categories, Dessert)

Abs(x) == IF x < 0 THEN -x ELSE x

(* C9: the entry of category c holds the offered total over all offering   *)
(* keys under c, the requested total under c, their difference as surplus  *)
(* and offered / requested x 100 (to the two decimals reported) as         *)
(* percentage; Paneer 10 against Paneer 15 gives overall ratio 1, no       *)
(* UnmetRequirement and the entry Mains with 150.00 and surplus 5.         *)
C9_OverEntryTotals ==
    Returned =>
        /\ \A i \in 1..Len(match.over_100_categories) :
              LET c == match.over_100_categories[i][1]
                  e == match.over_100_categories[i][2]
              IN  /\ e.category_name = c
                  /\ e.restaurant_offers = OffTotal(c)
                  /\ e.user_requested = ReqTotal(c)
                  /\ e.additional_items = OffTotal(c) - ReqTotal(c)
                  /\ 2 * Abs(e.match_percentage * ReqTotal(c) - OffTotal(c) * 10000)
                         <= ReqTotal(c)
        /\ IsOverScenario =>
              /\ FracEq(match.overall_match, One)
              /\ match.unmet_requirements = <<>>
              /\ DictKeys(match.over_100_categories) = {Mains}
              /\ DictGet(match.over_100_categories, Mains, Raised).match_percentage = 15000
              /\ DictGet(match.over_100_categories, Mains, Raised).additional_items = 5

(* an entry that exists only because the offered total counts an item the  *)
(* requirement lacks: no requested key is offered in surplus               *)
C9_Witness ==
    /\ Returned
    /\ DictHas(match.over_100_categories, Mains)
    /\ \E p \in UnderCategory(Mains) : OfferedQty(p) > 0 /\ Requested(p) = 0
    /\ \A p \in ReqPaths : OfferedQty(p) <= Requested(p)

IsUnmetOf(e, p) ==
    /\ e.level = "item"
    /\ <<e.category, e.cuisine, e.subcategory, e.item_type>> = p
    /\ e.requested = Requested(p)
    /\ e.available = OfferedQty(p)
    /\ e.shortfall = Requested(p) - OfferedQty(p)
    /\ e.shortfall > 0

(* C10: a returned result holds exactly one UnmetRequirement for each      *)
(* requirement key offered in less than the requested quantity (an absent  *)
(* item counting as 0) and none for any other key; each carries the key's  *)
(* four components, requested, available and shortfall > 0.                *)
C10_UnmetExactlyShortKeys ==
    Returned =>
        /\ Len(match.unmet_requirements) = Cardinality(ShortPaths)
        /\ \A p \in ShortPaths :
              \E i \in 1..Len(match.unmet_requirements) :
                  IsUnmetOf(match.unmet_requirements[i], p)
        /\ \A i \in 1..Len(match.unmet_requirements) :
              \E p \in ShortPaths : IsUnmetOf(match.unmet_requirements[i], p)

(* one key absent from the offering, one partly offered, one fully met *)
C10_Witness ==
    /\ Returned
    /\ Len(match.unmet_requirements) = 1
    /\ Cardinality(ReqPaths) = 2
    /\ match.unmet_requirements[1].available = 0
    /\ \E p \in ReqPaths : OfferedQty(p) = Requested(p)

----------------------------------------------------------------------------
(* One request: rank the packages, then reduce the ranking per venue *)

(* the largest number of packages of a request *)
MaxPackages == 3

VariantIds == {1, 2}

VenueA == <<"a">>

VenueB == <<"b">>

VenueIds == {NoVenue, VenueA, VenueB}

(* offerings scoring 0.5, 0.9 and 0.9 against the requirement Paneer 10;   *)
(* the last one over-fulfils Mains with an item nobody requested           *)
ScenarioHalf == [p \in {PaneerPath} |-> 5]

ScenarioMost == [p \in {PaneerPath} |-> 9]

ScenarioMostOver == [p \in {PaneerPath, DalPath} |-> IF p = PaneerPath THEN 9 ELSE 2]

Menus == {ScenarioHalf, ScenarioMost, ScenarioMostOver}

RestaurantPackages == [id : VariantIds, venue_id : VenueIds, categories : Menus]

PackageLists == UNION {[1..n -> RestaurantPackages] : n \in 0..MaxPackages}

Init ==
    /\ pc = "request"
    /\ user_req = ScenarioReq
    /\ restaurant_packages \in PackageLists
    /\ restaurant = EmptyTree
    /\ match = NoMatch
    /\ match_results = <<>>
    /\ response = NoResponse
    /\ UnusedScorer /\ DefaultMatcher /\ UnusedParser /\ UnusedAnalyzer

(* matcher.score_restaurants(user_requirements, restaurant_packages) *)
ScoreRestaurants ==
    /\ pc = "request"
    /\ LET r == score_restaurants(user_req, restaurant_packages)
       IN  IF r.raised
           THEN /\ pc' = "done"
                /\ response' = ErrorResponse
                /\ UNCHANGED match_results
           ELSE /\ pc' = "ranked"
                /\ match_results' = r.results
                /\ UNCHANGED response
    /\ UNCHANGED <<user_req, restaurant, match, restaurant_packages>>
    /\ UNCHANGED <<scorerVars, matcherVars, parserVars, analyzerVars>>

(* the loop over match_results, the per-venue heaps and the response *)
ReduceVenues ==
    /\ pc = "ranked"
    /\ response' = ReduceResponse(match_results)
    /\ pc' = "done"
    /\ UNCHANGED <<user_req, restaurant, match, restaurant_packages, match_results>>
    /\ UNCHANGED <<scorerVars, matcherVars, parserVars, analyzerVars>>

Next == ScoreRestaurants \/ ReduceVenues

Spec == Init /\ [][Next]_vars

----------------------------------------------------------------------------
(* Ratios and orders read off the request, independently of the ranking *)

QtyIn(tree, p) == IF p \in DOMAIN tree /\ tree[p] > 0 THEN tree[p] ELSE 0

RatioOf(req, offer) ==
    LET total   == PathSum([p \in Paths |-> QtyIn(req, p)], Paths)
        matched == PathSum([p \in Paths |-> Min(QtyIn(offer, p), QtyIn(req, p))], Paths)
    IN  IF total = 0 THEN <<0, 1>> ELSE <<matched, total>>

PackageRatio(k) == RatioOf(user_req, restaurant_packages[k].categories)

PackageIndexes == 1..Len(restaurant_packages)

(* the place of package k in the ranking: after the packages of higher     *)
(* ratio and after the earlier packages of equal ratio                     *)
RankOf(k) ==
    1 + Cardinality({j \in PackageIndexes : FracLess(PackageRatio(k), PackageRatio(j))})
      + Cardinality({j \in PackageIndexes :
                        j < k /\ FracEq(PackageRatio(j), PackageRatio(k))})

IsRecordOf(r, k) ==
    /\ r.restaurant_id = restaurant_packages[k].id
    /\ r.venue_id = restaurant_packages[k].venue_id
    /\ FracEq(r.overall_match, PackageRatio(k))

(* packages A(0.5), B(0.5), C(0.9), told apart by id and venue *)
IsExampleABC ==
    /\ Len(restaurant_packages) = 3
    /\ FracEq(PackageRatio(1), <<5, 10>>)
    /\ FracEq(PackageRatio(2), <<5, 10>>)
    /\ FracEq(PackageRatio(3), <<9, 10>>)
    /\ restaurant_packages[1].id # restaurant_packages[2].id
    /\ restaurant_packages[3].venue_id # restaurant_packages[1].venue_id
    /\ restaurant_packages[3].venue_id # restaurant_packages[2].venue_id

(* C5: score_restaurants returns one record per supplied package, by       *)
(* descending overall ratio, packages of equal ratio in the order they     *)
(* were supplied; [A(0.5), B(0.5), C(0.9)] comes out as [C, A, B].         *)
C5_RankedStable ==
    pc = "ranked" =>
        /\ Len(match_results) = Len(restaurant_packages)
        /\ \A k \in PackageIndexes : IsRecordOf(match_results[RankOf(k)], k)
        /\ \A i, j \in 1..Len(match_results) :
              i < j => FracLeq(match_results[j].overall_match,
                               match_results[i].overall_match)
        /\ IsExampleABC =>
              /\ IsRecordOf(match_results[1], 3)
              /\ IsRecordOf(match_results[2], 1)
              /\ IsRecordOf(match_results[3], 2)
              /\ ~IsRecordOf(match_results[2], 2)

C5_Witness ==
    /\ pc = "ranked"
    /\ IsExampleABC
    /\ IsRecordOf(match_results[1], 3)
    /\ IsRecordOf(match_results[2], 1)
    /\ IsRecordOf(match_results[3], 2)

(* venue reduction completed and returned its lists *)
Reduced == pc = "done" /\ response.status = "success"

MatchIndexes == 1..Len(response.matches)

VenueIndexes == 1..Len(response.venue_matches)

RecordsOfVenue(v) == {i \in MatchIndexes : response.matches[i].venue_id = v}

VenuesSeen == {response.matches[i].venue_id : i \in MatchIndexes} \ {NoVenue}

IsMaxPercent(x, v) ==
    /\ \E i \in RecordsOfVenue(v) : response.matches[i].match_percentage = x
    /\ \A i \in RecordsOfVenue(v) : response.matches[i].match_percentage <= x

(* the records of venue v that reach its highest match percentage *)
BestOfVenue(v) ==
    {i \in RecordsOfVenue(v) :
        IsMaxPercent(response.matches[i].match_percentage, v)}

(* C6: the venue-reduced list holds exactly one entry per distinct         *)
(* non-empty venue id of the match records, whose match percentage is the  *)
(* highest among the records of that venue.                                *)
C6_OnePerVenueWithMax ==
    Reduced =>
        /\ \A v \in VenuesSeen :
              Cardinality({i \in VenueIndexes :
                              response.venue_matches[i].venue_id = v}) = 1
        /\ \A i \in VenueIndexes :
              /\ response.venue_matches[i].venue_id \in VenuesSeen
              /\ IsMaxPercent(response.venue_matches[i].match_percentage,
                              response.venue_matches[i].venue_id)

(* two venues, one of them with packages of different match percentages *)
C6_Witness ==
    /\ Reduced
    /\ Len(response.venue_matches) = 2
    /\ \E i, j \in MatchIndexes :
          /\ response.matches[i].venue_id = response.matches[j].venue_id
          /\ response.matches[i].venue_id # NoVenue
          /\ response.matches[i].match_percentage
                 > response.matches[j].match_percentage

(* C7, as claimed: among the records of a venue that tie on the highest    *)
(* match percentage, the one earliest in the ranked list is selected.      *)
C7_FirstSeenWins ==
    Reduced =>
        \A i \in VenueIndexes :
            LET e == response.venue_matches[i]
                first == CHOOSE k \in BestOfVenue(e.venue_id) :
                             \A m \in BestOfVenue(e.venue_id) : k <= m
            IN  e.best_variant_id = response.matches[first].variant_id

(* C7, amended: among the records of a venue that tie on the highest match *)
(* percentage, the one with the smallest variant id is selected, wherever  *)
(* it stands in the ranked list.                                           *)
C7_SmallestVariantIdWins ==
    Reduced =>
        \A i \in VenueIndexes :
            LET e == response.venue_matches[i]
            IN  /\ \E k \in BestOfVenue(e.venue_id) :
                      response.matches[k].variant_id = e.best_variant_id
                /\ \A k \in BestOfVenue(e.venue_id) :
                      e.best_variant_id <= response.matches[k].variant_id

(* a tie in which the later record of the ranked list is selected *)
C7_Witness ==
    /\ Reduced
    /\ \E i \in VenueIndexes :
          LET e == response.venue_matches[i]
          IN  \E k, m \in BestOfVenue(e.venue_id) :
                  /\ k < m
                  /\ response.matches[k].variant_id > response.matches[m].variant_id
                  /\ e.best_variant_id = response.matches[m].variant_id

(* the records of a list that carry a venue id *)
WithVenue(results) == SelectSeq(results, LAMBDA r : r.venue_id # NoVenue)

(* C18: a match record whose venue id is empty or absent is in the full    *)
(* list (matches) but not in the venue-reduced list, whose entries are     *)
(* what the records with a venue id alone reduce to.                       *)
C18_NoVenueOnlyInMatches ==
    Reduced =>
        /\ Len(response.matches) = Len(match_results)
        /\ \A k \in MatchIndexes :
              /\ response.matches[k].variant_id = match_results[k].restaurant_id
              /\ response.matches[k].venue_id = match_results[k].venue_id
        /\ \A i \in VenueIndexes :
              /\ response.venue_matches[i].venue_id # NoVenue
              /\ response.venue_matches[i].venue_id \in VenuesSeen
        /\ response.venue_matches = ReduceResponse(WithVenue(match_results)).venue_matches

(* a record without venue id that scores higher than every venue's best *)
C18_Witness ==
    /\ Reduced
    /\ response.venue_matches # <<>>
    /\ \E k \in MatchIndexes :
          /\ response.matches[k].venue_id = NoVenue
          /\ \A i \in VenueIndexes :
                response.matches[k].match_percentage
                    > response.venue_matches[i].match_percentage

(* C19: in the venue-reduced list every entry's match percentage is >=     *)
(* that of the entry after it.                                             *)
C19_VenuesSortedDescending ==
    Reduced =>
        \A i, j \in VenueIndexes :
            i < j => response.venue_matches[i].match_percentage
                         >= response.venue_matches[j].match_percentage

(* two venues whose best packages differ in match percentage *)
C19_Witness ==
    /\ Reduced
    /\ Len(response.venue_matches) = 2
    /\ response.venue_matches[1].match_percentage
           > response.venue_matches[2].match_percentage
    /\ Len(response.matches) = 3

----------------------------------------------------------------------------
(* The flattener on its own: trees with any quantities and any names *)

(* the largest number of flatten calls made on one pair of trees *)
MaxCalls == 3

(* TikkaPath and TikkaSplitPath are distinct tuples of names *)
FlattenedPaths == {PaneerPath, TikkaPath, TikkaSplitPath, KheerPath}

Quantities == {-1, 0, 1, 2}

AnyTrees == UNION {[S -> Quantities] : S \in SUBSET FlattenedPaths}

TikkaOffer == [p \in {TikkaPath, TikkaSplitPath} |-> IF p = TikkaPath THEN 2 ELSE 0]

OfferTrees == {EmptyTree, ScenarioShort, TikkaOffer}

(* pc is the sequence of the calls made so far *)
InitFlatten ==
    /\ pc = <<>>
    /\ user_req \in AnyTrees
    /\ restaurant \in OfferTrees
    /\ match = NoMatch
    /\ restaurant_packages = <<>>
    /\ match_results = <<>>
    /\ response = NoResponse
    /\ UnusedScorer /\ DefaultMatcher /\ UnusedParser /\ UnusedAnalyzer

(* flat_user_req, total_user_items = self.flatten_requirements(user_req) *)
FlattenRequirements ==
    /\ Len(pc) < MaxCalls
    /\ LET r == flatten_requirements(user_req)
       IN  /\ flat_req' = r.flat
           /\ total_items' = r.total
    /\ pc' = Append(pc, "flatten_requirements")
    /\ UNCHANGED <<user_req, restaurant, match, restaurant_packages, match_results,
                   response, flat_offerings, scored_matches, matcherVars, parserVars, analyzerVars>>

(* flat_restaurant = self.flatten_restaurant(restaurant) *)
FlattenRestaurant ==
    /\ Len(pc) < MaxCalls
    /\ flat_offerings' = flatten_restaurant(restaurant)
    /\ pc' = Append(pc, "flatten_restaurant")
    /\ UNCHANGED <<user_req, restaurant, match, restaurant_packages, match_results,
                   response, flat_req, total_items, scored_matches, matcherVars, parserVars,
                   analyzerVars>>

NextFlatten == FlattenRequirements \/ FlattenRestaurant

SpecFlatten == InitFlatten /\ [][NextFlatten]_vars

Called(name) == \E i \in 1..Len(pc) : pc[i] = name

(* the items of a tree that have a quantity > 0 *)
PositivePaths(tree) == {p \in DOMAIN tree : tree[p] > 0}

RECURSIVE DictSum(_, _)
DictSum(d, i) == IF i > Len(d) THEN 0 ELSE d[i][2] + DictSum(d, i + 1)

(* C12: two distinct (category, cuisine, subcategory, item) tuples of a    *)
(* tree never flatten to the same key, and every key the flattener builds  *)
(* splits into exactly the four components it was built from, whatever     *)
(* the names are (names that contain '|' included).                        *)
C12_FlatKeyInjectiveReversible ==
    Called("flatten_requirements") =>
        /\ \A p, q \in PositivePaths(user_req) : p # q => FlatKey(p) # FlatKey(q)
        /\ Len(flat_req) = Cardinality(PositivePaths(user_req))
        /\ \A p \in PositivePaths(user_req) :
              /\ DictHas(flat_req, FlatKey(p))
              /\ Split(FlatKey(p)) = p

(* C13: the mapping flatten_requirements returns has a key for exactly the *)
(* items of quantity > 0, each mapped to its quantity, and the total is    *)
(* the sum of the mapped quantities; an empty tree gives the empty mapping *)
(* and total 0.                                                            *)
C13_FlattenKeepsPositiveItems ==
    Called("flatten_requirements") =>
        /\ DictKeys(flat_req) = {FlatKey(p) : p \in PositivePaths(user_req)}
        /\ \A p \in PositivePaths(user_req) :
              DictGet(flat_req, FlatKey(p), 0) = user_req[p]
        /\ total_items = DictSum(flat_req, 1)
        /\ user_req = EmptyTree => (flat_req = <<>> /\ total_items = 0)

----------------------------------------------------------------------------
(* score_restaurants, one package at a time *)

MixedReq == [p \in {PaneerPath, KheerPath} |-> IF p = PaneerPath THEN 2 ELSE 1]

(* a tree whose only item has quantity 0: nothing is requested *)
ZeroReq == [p \in {PaneerPath} |-> 0]

ScoreReqs == {EmptyTree, ZeroReq, ScenarioReq, MixedReq}

KheerOffer == [p \in {KheerPath} |-> 1]

(* packages 1 and 5 offer the same menu; package 3 offers an item whose    *)
(* name holds the separator                                                *)
ScorePackages ==
    { [id |-> 1, venue_id |-> VenueA, categories |-> ScenarioHalf],
      [id |-> 2, venue_id |-> VenueA, categories |-> ScenarioMostOver],
      [id |-> 3, venue_id |-> VenueB, categories |-> TikkaOffer],
      [id |-> 4, venue_id |-> NoVenue, categories |-> KheerOffer],
      [id |-> 5, venue_id |-> VenueB, categories |-> ScenarioHalf] }

ScoreLists == UNION {[1..n -> ScorePackages] : n \in 0..MaxPackages}

(* the settings a matcher is constructed with: the default threshold 0.7   *)
(* or threshold 1, and top_n 1 or the default 10                           *)
Thresholds == {<<7, 10>>, <<1, 1>>}

TopNs == {1, 10}

InitScore ==
    /\ pc = "call"
    /\ user_req \in ScoreReqs
    /\ restaurant_packages \in ScoreLists
    /\ threshold \in Thresholds
    /\ top_n \in TopNs
    /\ restaurant = EmptyTree
    /\ match = NoMatch
    /\ match_results = <<>>
    /\ response = NoResponse
    /\ UnusedScorer /\ UnusedParser /\ UnusedAnalyzer

(* flat_user_req, total_user_items = self.flatten_requirements(user_req);  *)
(* all_matches = []                                                        *)
ScoreFlatten ==
    /\ pc = "call"
    /\ LET r == flatten_requirements(user_req)
       IN  /\ flat_req' = r.flat
           /\ total_items' = r.total
    /\ scored_matches' = <<>>
    /\ pc' = "scoring"
    /\ UNCHANGED <<user_req, restaurant, match, restaurant_packages, match_results,
                   response, flat_offerings, matcherVars, parserVars, analyzerVars>>

(* one turn of "for restaurant in restaurant_packages": flatten the        *)
(* package, score it, append (overall_match, restaurant.id, match_result); *)
(* an exception of calculate_match leaves score_restaurants                *)
ScorePackage ==
    /\ pc = "scoring"
    /\ Len(scored_matches) < Len(restaurant_packages)
    /\ LET package == restaurant_packages[Len(scored_matches) + 1]
           flat    == flatten_restaurant(package.categories)
           m       == calculate_match(flat_req, flat, total_items)
       IN  /\ flat_offerings' = flat
           /\ restaurant' = package.categories
           /\ flat_req' = ReqAfterMatch(flat_req, flat)
           /\ match' = m
           /\ IF m.raised
              THEN /\ pc' = "raised"
                   /\ UNCHANGED scored_matches
              ELSE /\ pc' = "scoring"
                   /\ scored_matches' =
                          Append(scored_matches,
                                 <<m.overall_match, package.id, MatchResult(package, m)>>)
    /\ UNCHANGED <<user_req, restaurant_packages, match_results, response,
                   total_items, matcherVars, parserVars, analyzerVars>>

(* only the records that reach self.threshold are returned *)
ResultsAboveThreshold(sorted_matches) ==
    LET kept == SelectSeq(sorted_matches, LAMBDA x : FracLeq(threshold, x[1]))
    IN  [i \in 1..Len(kept) |-> kept[i][3]]

(* only the first self.top_n records are returned *)
ResultsUpToTopN(sorted_matches) ==
    [i \in 1..Min(top_n, Len(sorted_matches)) |-> sorted_matches[i][3]]

(* lines 506-511: for _, _, match_result in sorted_matches:                *)
(* results.append(match_result); self.threshold and self.top_n are read    *)
(* nowhere                                                                 *)
ResultsOf(sorted_matches) ==
    [i \in 1..Len(sorted_matches) |-> sorted_matches[i][3]]

(* sorted_matches = sorted(all_matches, ...); results holds the records *)
RankMatches ==
    /\ pc = "scoring"
    /\ Len(scored_matches) = Len(restaurant_packages)
    /\ match_results' = ResultsOf(SortedByRatioDesc(scored_matches))
    /\ pc' = "ranked"
    /\ UNCHANGED <<user_req, restaurant, match, restaurant_packages, response,
                   scorerVars, matcherVars, parserVars, analyzerVars>>

NextScore == ScoreFlatten \/ ScorePackage \/ RankMatches

SpecScore == InitScore /\ [][NextScore]_vars

----------------------------------------------------------------------------
(* What the record of one package must hold, read off the requirement and  *)
(* the package alone                                                       *)

ShortOf(req, offer) == {p \in Paths : QtyIn(offer, p) < QtyIn(req, p)}

OverOf(req, offer) ==
    {c \in Categories :
        LET requested == PathSum([p \in Paths |-> QtyIn(req, p)], UnderCategory(c))
            offered   == PathSum([p \in Paths |-> QtyIn(offer, p)], UnderCategory(c))
        IN  requested > 0 /\ offered > requested}

PrefixKeysOf(req) == {AggKeys(p)[n] : p \in PositivePaths(req), n \in 1..3}

(* the requirement items under an aggregation key *)
UnderKey(req, key) == {p \in PositivePaths(req) : IsPrefixKey(key, p)}

KeyRatioOf(req, offer, key) ==
    << PathSum([p \in Paths |-> Min(QtyIn(offer, p), QtyIn(req, p))], UnderKey(req, key)),
       PathSum([p \in Paths |-> QtyIn(req, p)], UnderKey(req, key)) >>

UnmetPaths(unmet_requirements) ==
    {<<unmet_requirements[i].category, unmet_requirements[i].cuisine,
       unmet_requirements[i].subcategory, unmet_requirements[i].item_type>> :
         i \in 1..Len(unmet_requirements)}

IsRecordFor(r, req, package) ==
    /\ r.restaurant_id = package.id
    /\ r.venue_id = package.venue_id
    /\ FracEq(r.overall_match, RatioOf(req, package.categories))
    /\ UnmetPaths(r.unmet_requirements) = ShortOf(req, package.categories)
    /\ Len(r.unmet_requirements) = Cardinality(ShortOf(req, package.categories))
    /\ DictKeys(r.over_100_categories) = OverOf(req, package.categories)
    /\ DictKeys(r.category_matches) = PrefixKeysOf(req)
    /\ \A i \in 1..Len(r.category_matches) :
          FracEq(r.category_matches[i][2],
                 KeyRatioOf(req, package.categories, r.category_matches[i][1]))

(* C11: when nothing is requested, the ranked output holds one record per  *)
(* supplied package, each with overall ratio 0 (a ratio with a non-zero    *)
(* denominator: no division by zero took place) and no UnmetRequirement.   *)
C11_EmptyRequirementScoresZero ==
    (pc = "ranked" /\ PositivePaths(user_req) = {}) =>
        /\ Len(match_results) = Len(restaurant_packages)
        /\ \A k \in PackageIndexes :
              /\ match_results[k].restaurant_id = restaurant_packages[k].id
              /\ match_results[k].overall_match[2] # 0
              /\ FracEq(match_results[k].overall_match, <<0, 1>>)
              /\ match_results[k].unmet_requirements = <<>>

(* the empty requirement against three packages that offer items *)
C11_Witness ==
    /\ pc = "ranked"
    /\ user_req = EmptyTree
    /\ Len(match_results) = 3
    /\ match_results[1].restaurant_id # match_results[2].restaurant_id
    /\ \A k \in PackageIndexes : restaurant_packages[k].categories # EmptyTree
    /\ match_results[3].overall_match = <<0, 1>>

C17_PackagesDoNotInteract ==
    /\ pc \in {"scoring", "ranked"} =>
          \A k \in 1..Len(scored_matches) :
              IsRecordFor(scored_matches[k][3], user_req, restaurant_packages[k])
    /\ pc = "ranked" =>
          \A k \in PackageIndexes :
              IsRecordFor(match_results[RankOf(k)], user_req, restaurant_packages[k])

(* the same menu scored first and last, a different one in between, each   *)
(* with its own unmet requirements                                         *)
C17_Witness ==
    /\ pc = "ranked"
    /\ Len(restaurant_packages) = 3
    /\ restaurant_packages[1].categories = restaurant_packages[3].categories
    /\ restaurant_packages[2].categories # restaurant_packages[1].categories
    /\ \A k \in 1..3 : match_results[k].unmet_requirements # <<>>
    /\ match_results[2].over_100_categories = <<>>
    /\ match_results[1].over_100_categories # <<>>

----------------------------------------------------------------------------
(* The builders of the trees: parse_user_requirements and                  *)
(* adapt_restaurant_data_updated on one dict of item counts                *)

General == <<"G">>

(* a JSON count: a number, a string that is not a number, or null *)
IntCount(n) == [type |-> "int", value |-> n]

StrCount == [type |-> "str"]

NoneCount == [type |-> "NoneType"]

CountValues == {IntCount(n) : n \in {-1, 0, 1, 2}} \cup {StrCount, NoneCount}

ItemNames == <<Paneer, Dal, Naan>>

(* the dicts item name -> count over ItemNames, in the order of ItemNames *)
RECURSIVE CountDictsFrom(_)
CountDictsFrom(i) ==
    IF i > Len(ItemNames) THEN {<<>>}
    ELSE LET rest == CountDictsFrom(i + 1)
         IN  rest \cup {<< <<ItemNames[i], c>> >> \o d : c \in CountValues, d \in rest}

CountDicts == CountDictsFrom(1)

(* "count > 0": "true", "false", or "TypeError" when count is no number *)
GreaterThanZero(count) ==
    IF count.type = "int"
    THEN (IF count.value > 0 THEN "true" ELSE "false")
    ELSE "TypeError"

(* "if count": None, 0 and the empty string are false *)
Truthy(count) ==
    IF count.type = "int" THEN count.value # 0 ELSE count.type = "str"

(* the tree that holds the items under one category, cuisine and           *)
(* subcategory; nothing is built for an empty items dict ("if items:")     *)
TreeOf(cat_name, cuisine_name, subcat_name, items) ==
    [p \in {<<cat_name, cuisine_name, subcat_name, items[i][1]>> : i \in 1..Len(items)}
        |-> DictGet(items, p[4], 0)]

(* lines 846-853: count_val = int(count) if count else 0, in a try that    *)
(* skips the item on ValueError or TypeError                               *)
RECURSIVE SectionItemsLoop(_, _, _)
SectionItemsLoop(item_counts_data, i, items) ==
    IF i > Len(item_counts_data) THEN items
    ELSE LET item_type == item_counts_data[i][1]
             count     == item_counts_data[i][2]
         IN  IF Truthy(count) /\ count.type = "int" /\ count.value > 0
             THEN SectionItemsLoop(item_counts_data, i + 1,
                                   DictPut(items, item_type, count.value))
             ELSE SectionItemsLoop(item_counts_data, i + 1, items)

(* parse_user_requirements on [{"name": Mains, "subcategoriesByCuisine":   *)
(* {Indian: [{"name": Curry, "count": item_counts_data}]}}]                *)
parse_menu_sections(item_counts_data) ==
    TreeOf(Mains, Indian, Curry, SectionItemsLoop(item_counts_data, 1, <<>>))

(* lines 902-904 and 1142-1144: "if count > 0" on the raw count *)
RECURSIVE RawItemsLoop(_, _, _)
RawItemsLoop(counts, i, acc) ==
    IF i > Len(counts) \/ acc.raised THEN acc
    ELSE LET item_type == counts[i][1]
             count     == counts[i][2]
             test      == GreaterThanZero(count)
         IN  IF test = "TypeError" THEN [acc EXCEPT !.raised = TRUE]
             ELSE IF test = "true"
                  THEN RawItemsLoop(counts, i + 1,
                         [acc EXCEPT !.items = DictPut(@, item_type, count.value)])
                  ELSE RawItemsLoop(counts, i + 1, acc)

(* parse_user_requirements on {"count": [{"name": Mains, "count": counts}]}: *)
(* an exception is caught at line 979 and the empty requirement returned   *)
parse_category_counts(counts) ==
    LET r == RawItemsLoop(counts, 1, [raised |-> FALSE, items |-> <<>>])
    IN  IF r.raised THEN EmptyTree
        ELSE TreeOf(Mains, General, General, r.items)

(* adapt_restaurant_data_updated on a variant whose availableMenuCount is  *)
(* [{"name": Mains, "subcategoriesByCuisine": {Indian: [{"name": Curry,    *)
(* "availableMenuCount": count_data}]}}]: nothing catches the exception    *)
adapt_restaurant_data_updated(count_data) ==
    LET r == RawItemsLoop(count_data, 1, [raised |-> FALSE, items |-> <<>>])
    IN  IF r.raised THEN [raised |-> TRUE, categories |-> EmptyTree]
        ELSE [raised |-> FALSE, categories |-> TreeOf(Mains, Indian, Curry, r.items)]

InitParse ==
    /\ pc = "upstream"
    /\ counts_data \in CountDicts
    /\ user_req = EmptyTree
    /\ restaurant = EmptyTree
    /\ match = NoMatch
    /\ restaurant_packages = <<>>
    /\ match_results = <<>>
    /\ response = NoResponse
    /\ UnusedScorer /\ DefaultMatcher /\ UnusedCuisine /\ UnusedAnalyzer

ParseMenuSections ==
    /\ pc = "upstream"
    /\ user_req' = parse_menu_sections(counts_data)
    /\ pc' = "parsed_sections"
    /\ UNCHANGED <<restaurant, match, restaurant_packages, match_results, response,
                   scorerVars, matcherVars, parserVars, analyzerVars>>

ParseCategoryCounts ==
    /\ pc = "upstream"
    /\ user_req' = parse_category_counts(counts_data)
    /\ pc' = "parsed_counts"
    /\ UNCHANGED <<restaurant, match, restaurant_packages, match_results, response,
                   scorerVars, matcherVars, parserVars, analyzerVars>>

(* the TypeError leaves match_restaurants_integrated through               *)
(* handle_api_error                                                        *)
AdaptRestaurantData ==
    /\ pc = "upstream"
    /\ LET r == adapt_restaurant_data_updated(counts_data)
       IN  /\ restaurant' = r.categories
           /\ response' = IF r.raised THEN ErrorResponse ELSE response
    /\ pc' = "adapted"
    /\ UNCHANGED <<user_req, match, restaurant_packages, match_results,
                   scorerVars, matcherVars, parserVars, analyzerVars>>

NextParse == ParseMenuSections \/ ParseCategoryCounts \/ AdaptRestaurantData

SpecParse == InitParse /\ [][NextParse]_vars

(* the items of counts_data whose count is a number > 0 *)
UsableItems ==
    {i \in 1..Len(counts_data) :
        counts_data[i][2].type = "int" /\ counts_data[i][2].value > 0}

(* the built tree holds exactly the usable items, each with its count *)
HoldsUsableItems(tree) ==
    /\ {p[4] : p \in DOMAIN tree} = {counts_data[i][1] : i \in UsableItems}
    /\ Cardinality(DOMAIN tree) = Cardinality(UsableItems)
    /\ \A p \in DOMAIN tree :
          \E i \in UsableItems :
              counts_data[i][1] = p[4] /\ counts_data[i][2].value = tree[p]

(* C15: a count that is no usable non-negative number (a string, null) is  *)
(* treated as 0: the builders of the trees raise no error and build a tree *)
(* that lacks only the affected items.                                     *)
C15_MalformedCountExcludesOnlyItsItem ==
    /\ pc \in {"parsed_sections", "parsed_counts"} => HoldsUsableItems(user_req)
    /\ pc = "adapted" => (response # ErrorResponse /\ HoldsUsableItems(restaurant))

----------------------------------------------------------------------------
(* ItemPopularityAnalyzer *)

(* the largest number of variants of a batch *)
MaxVariants == 3

(* the category name "Menu Items" *)
MenuItems == <<"U">>

(* a variant: not a dict at all, or a dict whose "availableMenuCount",     *)
(* "data"["availableMenuCount"] and "count" are lists of {"name", "count"} *)
(* dicts, here lists of <<name, count>> (an absent field is an empty list) *)
Variant(amc, data_amc, count) ==
    [is_dict |-> TRUE, availableMenuCount |-> amc, data |-> data_amc, count |-> count]

NotADict ==
    [is_dict |-> FALSE, availableMenuCount |-> <<>>, data |-> <<>>, count |-> <<>>]

NoItemsVariant == Variant(<<>>, <<>>, <<>>)

(* only counts that are dropped *)
BadCountsVariant ==
    Variant(<< <<Dal, StrCount>>, <<Paneer, IntCount(-1)>>, <<Naan, NoneCount>> >>,
            <<>>, <<>>)

PaneerVariant == Variant(<< <<Paneer, IntCount(1)>> >>, <<>>, <<>>)

(* the same item twice in one list *)
PaneerTwiceVariant ==
    Variant(<< <<Paneer, IntCount(1)>>, <<Paneer, IntCount(2)>> >>, <<>>, <<>>)

(* the same item in "availableMenuCount" and in "data" *)
PaneerDataVariant ==
    Variant(<< <<Paneer, IntCount(1)>>, <<Dal, IntCount(2)>> >>,
            << <<Paneer, IntCount(1)>>, <<Dal, IntCount(0)>> >>, <<>>)

(* the same item name under "Menu Items" and, through "count", under       *)
(* "General"                                                               *)
PaneerCountVariant ==
    Variant(<< <<Dal, IntCount(1)>> >>, <<>>, << <<Paneer, IntCount(2)>> >>)

(* the largest float, scaled down: int / int raises OverflowError when the  *)
(* quotient is above it                                                    *)
FloatMax == 1000

(* an integer count far above the largest float *)
HugeCount == IntCount(10 * FloatMax)

HugeVariant == Variant(<< <<Naan, HugeCount>> >>, <<>>, <<>>)

Variants ==
    {NotADict, NoItemsVariant, BadCountsVariant, PaneerVariant, PaneerTwiceVariant,
     PaneerDataVariant, PaneerCountVariant, HugeVariant}

Batches == UNION {[1..n -> Variants] : n \in 0..MaxVariants}

(* isinstance(count, (int, float)) and count > 0 *)
IsPositiveNumber(count) == count.type = "int" /\ count.value > 0

(* an item that is in the variant already has its quantity overwritten *)
add_item_to_stats_overwriting(item_name, quantity, variant_items, category, cuisine, subcategory) ==
    IF item_name = <<>> \/ ~IsPositiveNumber(quantity) THEN variant_items
    ELSE DictPut(variant_items, FlatKey(<<category, cuisine, subcategory, item_name>>),
                 [name |-> item_name, category |-> category, cuisine |-> cuisine,
                  subcategory |-> subcategory, quantity |-> quantity.value])

(* _add_item_to_stats: returns variant_items *)
add_item_to_stats(item_name, quantity, variant_items, category, cuisine, subcategory) ==
    IF item_name = <<>> \/ ~IsPositiveNumber(quantity) THEN variant_items
    ELSE LET item_key == FlatKey(<<category, cuisine, subcategory, item_name>>)
         IN  IF ~DictHas(variant_items, item_key)
             THEN DictPut(variant_items, item_key,
                    [name |-> item_name, category |-> category, cuisine |-> cuisine,
                     subcategory |-> subcategory, quantity |-> quantity.value])
             ELSE LET old == DictGet(variant_items, item_key, NoMatch)
                  IN  DictPut(variant_items, item_key,
                              [old EXCEPT !.quantity = @ + quantity.value])

(* the list branch of _process_available_menu_count and of                 *)
(* _process_count_data: every {"name", "count"} item with a number > 0     *)
RECURSIVE process_count_data(_, _, _, _, _, _)
process_count_data(count_data, i, variant_items, category, cuisine, subcategory) ==
    IF i > Len(count_data) THEN variant_items
    ELSE LET item_name == count_data[i][1]
             count     == count_data[i][2]
         IN  process_count_data(count_data, i + 1,
                 IF IsPositiveNumber(count)
                 THEN add_item_to_stats(item_name, count, variant_items,
                                        category, cuisine, subcategory)
                 ELSE variant_items,
                 category, cuisine, subcategory)

(* _extract_items_from_variant: methods 1, 3 and 4 *)
extract_items_from_variant(variant) ==
    LET m1 == process_count_data(variant.availableMenuCount, 1, <<>>,
                                 MenuItems, General, General)
        m3 == process_count_data(variant.data, 1, m1, MenuItems, General, General)
    IN  process_count_data(variant.count, 1, m3, General, General, General)

(* lines 554-566: the items of one variant added to self.item_stats *)
RECURSIVE StatsLoop(_, _, _)
StatsLoop(variant_items, i, stats) ==
    IF i > Len(variant_items) THEN stats
    ELSE LET item_key  == variant_items[i][1]
             item_data == variant_items[i][2]
             old == DictGet(stats, item_key,
                        [count |-> 0, total_quantity |-> 0,
                         item_name |-> item_data.name, category |-> item_data.category,
                         cuisine |-> item_data.cuisine,
                         subcategory |-> item_data.subcategory])
         IN  StatsLoop(variant_items, i + 1,
                 DictPut(stats, item_key,
                     [old EXCEPT !.count = @ + 1,
                                 !.total_quantity = @ + item_data.quantity]))

(* a diagnostic note: the words after "Variant" that name the variant (or  *)
(* the numbers of the closing note) and the text of the note               *)
Note(label, text) == [variant |-> label, text |-> text]

(* f"Variant {i}: ..." *)
ByIndex(i) == <<"", i>>

(* variant.get("_id", f"variant_{i}") of a variant without "_id" *)
ByVariantId(i) == <<"variant_", i>>

(* variant.get("_id", "unknown") of a variant without "_id" *)
Unknown == <<"unknown">>

(* the analyzer as __init__ leaves it *)
FreshAnalyzer == [item_stats |-> <<>>, debug_info |-> <<>>]

(* the fields are kept from the call before *)
AnalyzerStartKept == [item_stats |-> item_stats, debug_info |-> debug_info]

(* lines 536-537: the fields as analyze_variants sets them on entry *)
AnalyzerStart == [item_stats |-> <<>>, debug_info |-> <<>>]

(* the loop of analyze_variants over the batch; acc holds item_stats,      *)
(* debug_info and variants_processed                                       *)
RECURSIVE VariantLoop(_, _, _)
VariantLoop(batch, i, acc) ==
    IF i > Len(batch) THEN acc
    ELSE LET variant == batch[i]
         IN  IF ~variant.is_dict
             THEN VariantLoop(batch, i + 1,
                    [acc EXCEPT !.debug_info =
                        Append(@, Note(ByIndex(i - 1), "Not a dictionary"))])
             ELSE LET variant_items == extract_items_from_variant(variant)
                  IN  IF variant_items # <<>>
                      THEN VariantLoop(batch, i + 1,
                             [item_stats |-> StatsLoop(variant_items, 1, acc.item_stats),
                              debug_info |->
                                  Append(acc.debug_info,
                                         Note(Unknown, "Found unique items")),
                              variants_processed |-> acc.variants_processed + 1])
                      ELSE VariantLoop(batch, i + 1,
                             [acc EXCEPT !.debug_info =
                                 @ \o <<Note(Unknown, "No items found"),
                                        Note(ByVariantId(i - 1), "No items extracted")>>])

(* line 760: total_quantity / count, int / int, raises OverflowError when   *)
(* the quotient is too large for a float                                   *)
DivisionOverflows(total_quantity, count) == total_quantity > FloatMax * count

(* one entry of items_list; percentages and averages in hundredths *)
PopularityItem(item_key, stats, total) ==
    [item_id                        |-> item_key,
     item_name                      |-> stats.item_name,
     category                       |-> stats.category,
     cuisine                        |-> stats.cuisine,
     subcategory                    |-> stats.subcategory,
     variants_count                 |-> stats.count,
     popularity_percentage          |-> RoundHalfEven(stats.count * 10000, total),
     total_quantity_across_variants |-> stats.total_quantity,
     average_quantity_per_variant   |->
         IF stats.count > 0 THEN RoundHalfEven(stats.total_quantity * 100, stats.count)
         ELSE 0]

(* items_list is left in the order of item_stats *)
SortedByPopularityKept(items_list) == items_list

(* line 774: items_list.sort(key=popularity_percentage, reverse=True) *)
SortedByPopularityDesc(items_list) ==
    LET sorted == SortWith([i \in 1..Len(items_list) |->
                               <<<<items_list[i].popularity_percentage, 1>>,
                                 items_list[i]>>],
                           1, <<>>)
    IN  [i \in 1..Len(sorted) |-> sorted[i][2]]

(* _prepare_popularity_response *)
prepare_popularity_response(stats, total, notes) ==
    LET items_list == [i \in 1..Len(stats) |->
                          PopularityItem(stats[i][1], stats[i][2], total)]
    IN  [items              |-> SortedByPopularityDesc(items_list),
         total_variants     |-> total,
         total_unique_items |-> Len(items_list),
         debug_info         |-> notes]

(* the loop of _prepare_popularity_response raises at an item whose average *)
(* is too large for a float                                                *)
PrepareRaises(stats) ==
    \E i \in 1..Len(stats) :
        stats[i][2].count > 0
            /\ DivisionOverflows(stats[i][2].total_quantity, stats[i][2].count)

(* the call on an analyzer whose fields are start.item_stats and           *)
(* start.debug_info once lines 536-537 have run: the fields of the         *)
(* analyzer after the call, whether the call raised, and the dict it       *)
(* returns                                                                 *)
AnalyzeFrom(start, batch) ==
    IF Len(batch) = 0
    THEN [item_stats |-> start.item_stats, debug_info |-> start.debug_info,
          total_variants |-> 0, raised |-> FALSE,
          returned |-> [items |-> <<>>, total_variants |-> 0,
                        debug_info |-> <<Note(Unknown, "No variants provided")>>]]
    ELSE LET a == VariantLoop(batch, 1,
                      [item_stats |-> start.item_stats, debug_info |-> start.debug_info,
                       variants_processed |-> 0])
             notes == Append(a.debug_info,
                             Note(<<"Processed", a.variants_processed, Len(batch)>>,
                                  "Processed"))
         IN  [item_stats |-> a.item_stats, debug_info |-> notes,
              total_variants |-> Len(batch),
              raised |-> PrepareRaises(a.item_stats),
              returned |-> IF PrepareRaises(a.item_stats) THEN NoResponse
                           ELSE prepare_popularity_response(a.item_stats, Len(batch),
                                                            notes)]

(* analyze_variants on the analyzer of the request *)
analyze_variants(batch) == AnalyzeFrom(AnalyzerStart, batch)

(* the largest number of analyze_variants calls on one analyzer *)
MaxRuns == 2

(* the batches of the calls after the first *)
LaterBatches ==
    {<<>>, <<PaneerVariant>>, <<NoItemsVariant, PaneerTwiceVariant>>,
     <<NotADict, PaneerCountVariant>>, <<HugeVariant>>}

InitPopularity ==
    /\ pc = "batch"
    /\ variants_data \in Batches
    /\ item_stats = FreshAnalyzer.item_stats
    /\ total_variants = 0
    /\ debug_info = FreshAnalyzer.debug_info
    /\ analyzer_calls = 0
    /\ user_req = EmptyTree
    /\ restaurant = EmptyTree
    /\ match = NoMatch
    /\ restaurant_packages = <<>>
    /\ match_results = <<>>
    /\ response = NoResponse
    /\ UnusedScorer /\ DefaultMatcher /\ UnusedParser

(* one call of analyze_variants; an exception leaves the call without a    *)
(* result                                                                  *)
AnalyzeVariants ==
    /\ pc = "batch"
    /\ LET r == analyze_variants(variants_data)
       IN  /\ item_stats' = r.item_stats
           /\ total_variants' = r.total_variants
           /\ debug_info' = r.debug_info
           /\ response' = r.returned
           /\ pc' = IF r.raised THEN "raised" ELSE "analyzed"
    /\ analyzer_calls' = analyzer_calls + 1
    /\ UNCHANGED <<user_req, restaurant, match, restaurant_packages, match_results,
                   variants_data, scorerVars, matcherVars, parserVars>>

(* the same analyzer is handed another batch *)
NextBatch ==
    /\ pc \in {"analyzed", "raised"}
    /\ analyzer_calls < MaxRuns
    /\ variants_data' \in LaterBatches
    /\ response' = NoResponse
    /\ pc' = "batch"
    /\ UNCHANGED <<user_req, restaurant, match, restaurant_packages, match_results,
                   item_stats, total_variants, debug_info, analyzer_calls,
                   scorerVars, matcherVars, parserVars>>

NextPopularity == AnalyzeVariants \/ NextBatch

SpecPopularity == InitPopularity /\ [][NextPopularity]_vars

(* what one variant holds of an item key, read off the variant's lists *)
RECURSIVE ListQuantity(_, _, _)
ListQuantity(list, i, name) ==
    IF i > Len(list) THEN 0
    ELSE (IF list[i][1] = name /\ list[i][2].type = "int" /\ list[i][2].value > 0
          THEN list[i][2].value ELSE 0)
         + ListQuantity(list, i + 1, name)

(* the quantity of the item of that category and name in the variant *)
VariantQuantity(variant, category, name) ==
    IF ~variant.is_dict THEN 0
    ELSE IF category = MenuItems
         THEN ListQuantity(variant.availableMenuCount, 1, name)
                  + ListQuantity(variant.data, 1, name)
         ELSE ListQuantity(variant.count, 1, name)

ItemKeys == {<<c, n>> : c \in {MenuItems, General}, n \in {Paneer, Dal, Naan}}

Holders(k) ==
    {i \in 1..Len(variants_data) : VariantQuantity(variants_data[i], k[1], k[2]) > 0}

RECURSIVE BatchQuantity(_, _)
BatchQuantity(i, k) ==
    IF i > Len(variants_data) THEN 0
    ELSE VariantQuantity(variants_data[i], k[1], k[2]) + BatchQuantity(i + 1, k)

ItemsOfKey(k) ==
    {i \in 1..Len(response.items) :
        response.items[i].item_id = FlatKey(<<k[1], General, General, k[2]>>)}

(* C20: the analyzer returns one entry for each item key that some         *)
(* offering of the batch holds, whose variants_count is the number of      *)
(* offerings that hold the key (an offering counts once, however often the *)
(* key occurs in it), whose total quantity is the sum of the key's         *)
(* quantities over those offerings, and whose popularity percentage is     *)
(* variants_count / number of offerings supplied x 100 (to the two         *)
(* decimals reported); so 1 <= variants_count <= number of offerings.      *)
C20_PopularityCounts ==
    pc = "analyzed" =>
        /\ response.total_variants = Len(variants_data)
        /\ \A k \in ItemKeys :
              /\ Cardinality(ItemsOfKey(k)) = IF Holders(k) = {} THEN 0 ELSE 1
              /\ \A i \in ItemsOfKey(k) :
                    LET e == response.items[i]
                    IN  /\ e.variants_count = Cardinality(Holders(k))
                        /\ e.total_quantity_across_variants = BatchQuantity(1, k)
                        /\ 2 * Abs(e.popularity_percentage * Len(variants_data)
                                     - e.variants_count * 10000)
                               <= Len(variants_data)
                        /\ 1 <= e.variants_count
                        /\ e.variants_count <= Len(variants_data)
        /\ Len(response.items)
              = Cardinality({k \in ItemKeys : Holders(k) # {}})

(* a batch of three in which one offering holds an item twice, one holds   *)
(* nothing and one is not a dict: the item counts 2 of 3 (66.67)           *)
C20_Witness ==
    /\ pc = "analyzed"
    /\ Len(variants_data) = 3
    /\ \E i \in 1..3 : variants_data[i] = PaneerTwiceVariant
    /\ \E i \in 1..Len(response.items) :
          /\ response.items[i].variants_count = 2
          /\ response.items[i].total_quantity_across_variants = 4
          /\ response.items[i].popularity_percentage = 6667

(* the offerings of the batch that are no dict or yield no items *)
SkippedOfferings ==
    {i \in 1..Len(variants_data) : \A k \in ItemKeys : i \notin Holders(k)}

(* the diagnostic notes that name the offering at place i *)
NotesOf(i) ==
    {n \in 1..Len(debug_info) :
        debug_info[n].variant \in {ByIndex(i - 1), ByVariantId(i - 1)}}

StatsCount(k) ==
    LET item_key == FlatKey(<<k[1], General, General, k[2]>>)
    IN  IF DictHas(item_stats, item_key)
        THEN DictGet(item_stats, item_key, NoMatch).count ELSE 0

(* what every finished call leaves, whether or not it returned: each       *)
(* skipped offering has a note and adds to no count, every other offering  *)
(* is counted, and the closing note tells how many were counted            *)
SkippedOnlyThemselves ==
    /\ \A i \in SkippedOfferings : NotesOf(i) # {}
    /\ \A k \in ItemKeys : StatsCount(k) = Cardinality(Holders(k))
    /\ Len(variants_data) > 0 =>
          debug_info[Len(debug_info)].variant =
              <<"Processed", Len(variants_data) - Cardinality(SkippedOfferings),
                Len(variants_data)>>

(* C21: no call of the popularity analyzer fails: whatever the batch, the  *)
(* call returns a complete result, every offering that is malformed or     *)
(* yields no items has at least one diagnostic note and adds nothing to    *)
(* any item's counts, and every other offering of the batch is counted.    *)
C21_AnalyzerNeverFailsForBatch ==
    pc \in {"analyzed", "raised"} =>
        /\ pc = "analyzed"
        /\ response.total_variants = Len(variants_data)
        /\ SkippedOnlyThemselves

(* C22: the item list the analyzer returns is in descending order of       *)
(* popularity percentage: each item's percentage is at least that of the   *)
(* item after it.                                                          *)
C22_ItemsSortedByPopularity ==
    pc = "analyzed" =>
        \A i \in 1..(Len(response.items) - 1) :
            response.items[i].popularity_percentage
                >= response.items[i + 1].popularity_percentage

(* the item met first in the batch is not the most popular one: it is      *)
(* returned after an item met later                                        *)
C22_Witness ==
    /\ pc = "analyzed"
    /\ Len(response.items) >= 2
    /\ Len(item_stats) >= 2
    /\ item_stats[1][2].count < item_stats[Len(item_stats)][2].count
    /\ response.items[1].item_id = item_stats[Len(item_stats)][1]
    /\ response.items[1].popularity_percentage
           > response.items[Len(response.items)].popularity_percentage

(* C30: the analyzer carries nothing from one call to the next: after any  *)
(* earlier calls on the same instance, a call on a batch leaves the item   *)
(* statistics, the total and the diagnostic notes, and returns the result, *)
(* of a call on that batch on a fresh instance; the counts are those of    *)
(* the batch alone.                                                        *)
C30_NoStateBetweenRuns ==
    pc \in {"analyzed", "raised"} =>
        LET fresh == AnalyzeFrom(FreshAnalyzer, variants_data)
        IN  /\ item_stats = fresh.item_stats
            /\ total_variants = fresh.total_variants
            /\ debug_info = fresh.debug_info
            /\ response = fresh.returned
            /\ (pc = "raised") = fresh.raised
            /\ \A k \in ItemKeys : StatsCount(k) = Cardinality(Holders(k))

(* a second call on the same analyzer, on a batch of one offering with one *)
(* item: the item counts once and two notes are left, whatever the first   *)
(* call counted                                                            *)
C30_Witness ==
    /\ pc = "analyzed"
    /\ analyzer_calls = 2
    /\ variants_data = <<PaneerVariant>>
    /\ StatsCount(<<MenuItems, Paneer>>) = 1
    /\ Len(item_stats) = 1
    /\ Len(debug_info) = 2
    /\ response.items[1].variants_count = 1

----------------------------------------------------------------------------
(* The aggregation ratios and the conservation of the requested quantity   *)

(* item_ratio x requested of a requirement item: the requested quantity    *)
(* when the item is met (item_ratio 1), else (offered / requested) x       *)
(* requested                                                               *)
ContributionFn ==
    [p \in Paths |->
        IF OfferedQty(p) >= Requested(p) THEN Requested(p)
        ELSE (OfferedQty(p) * Requested(p)) \div Requested(p)]

(* the requirement items whose FlatKey has the prefix key *)
ItemsUnder(key) == {p \in ReqPaths : IsPrefixKey(key, p)}

(* C23: the aggregation keys of a returned result are exactly the prefixes *)
(* of length 1, 2 and 3 of the requirement's keys (one entry each, none    *)
(* for a key only the offering holds), and the ratio at a key is the sum   *)
(* of item_ratio x requested over the requirement items under it, divided  *)
(* by the sum of their requested quantities.                               *)
C23_AggregationKeysAndRatios ==
    Returned =>
        /\ DictKeys(match.category_matches)
               = {AggKeys(p)[n] : p \in ReqPaths, n \in 1..3}
        /\ Len(match.category_matches)
               = Cardinality(DictKeys(match.category_matches))
        /\ \A i \in 1..Len(match.category_matches) :
              LET key == match.category_matches[i][1]
              IN  /\ PathSum(RequestedFn, ItemsUnder(key)) > 0
                  /\ FracEq(match.category_matches[i][2],
                            <<PathSum(ContributionFn, ItemsUnder(key)),
                              PathSum(RequestedFn, ItemsUnder(key))>>)

(* Paneer 2 and Dal 1 requested, Paneer 1, Dal 1 and a dessert offered:    *)
(* Mains is at 2/3, and no key of Dessert appears                          *)
C23_Witness ==
    /\ Returned
    /\ Requested(PaneerPath) = 2 /\ OfferedQty(PaneerPath) = 1
    /\ Requested(DalPath) = 1 /\ OfferedQty(DalPath) = 1
    /\ OfferedQty(KheerPath) = 1
    /\ FracEq(DictGet(match.category_matches, Mains, <<0, 1>>), <<2, 3>>)
    /\ ~DictHas(match.category_matches, Dessert)
    /\ Len(match.category_matches) = 3

RECURSIVE ShortfallSum(_, _)
ShortfallSum(unmet_requirements, i) ==
    IF i > Len(unmet_requirements) THEN 0
    ELSE unmet_requirements[i].shortfall + ShortfallSum(unmet_requirements, i + 1)

(* C26: the requested quantity is conserved: the matched quantity and the  *)
(* shortfalls of the UnmetRequirements of a returned result add up to the  *)
(* total requested, so the shortfalls lie between 0 and the total and, for *)
(* a requirement that requests something, the overall ratio is             *)
(* 1 - shortfalls / total, that is (total - shortfalls) / total.           *)
C26_RequestedQuantityConserved ==
    Returned =>
        LET shortfalls == ShortfallSum(match.unmet_requirements, 1)
            total      == PathSum(RequestedFn, ReqPaths)
        IN  /\ 0 <= shortfalls
            /\ shortfalls <= total
            /\ \A i \in 1..Len(match.unmet_requirements) :
                  match.unmet_requirements[i].shortfall > 0
            /\ total > 0 =>
                  /\ FracEq(match.overall_match, <<total - shortfalls, total>>)
                  /\ match.overall_match[1] + shortfalls = total
            /\ total = 0 => shortfalls = 0

(* three requested, one matched, two UnmetRequirements of shortfall 1 *)
C26_Witness ==
    /\ Returned
    /\ PathSum(RequestedFn, ReqPaths) = 3
    /\ Len(match.unmet_requirements) = 2
    /\ ShortfallSum(match.unmet_requirements, 1) = 2
    /\ FracEq(match.overall_match, <<1, 3>>)

(* the number of names an aggregation key is made of *)
RECURSIVE KeyLevel(_)
KeyLevel(key) ==
    IF key = <<>> THEN 1
    ELSE (IF Head(key) = Sep THEN 1 ELSE 0) + KeyLevel(Tail(key))

(* child is parent followed by the separator and one more name *)
IsChildKey(parent, child) ==
    /\ KeyLevel(child) = KeyLevel(parent) + 1
    /\ Len(child) > Len(parent) + 1
    /\ SubSeq(child, 1, Len(parent)) = parent
    /\ child[Len(parent) + 1] = Sep

(* the requested quantity under an aggregation key *)
RequestedUnder(key) == PathSum(RequestedFn, ItemsUnder(key))

FracAdd(a, b) == <<a[1] * b[2] + b[1] * a[2], a[2] * b[2]>>

(* over the entries of category_matches from place i on that satisfy Is:   *)
(* the sum of ratio x requested quantity                                   *)
RECURSIVE WeightedRatioSum(_, _)
WeightedRatioSum(Is(_), i) ==
    IF i > Len(match.category_matches) THEN <<0, 1>>
    ELSE LET key   == match.category_matches[i][1]
             ratio == match.category_matches[i][2]
             rest  == WeightedRatioSum(Is, i + 1)
         IN  IF Is(key)
             THEN FracAdd(<<ratio[1] * RequestedUnder(key), ratio[2]>>, rest)
             ELSE rest

(* the sum of the requested quantities of those entries *)
RECURSIVE WeightSum(_, _)
WeightSum(Is(_), i) ==
    IF i > Len(match.category_matches) THEN 0
    ELSE (IF Is(match.category_matches[i][1])
          THEN RequestedUnder(match.category_matches[i][1]) ELSE 0)
         + WeightSum(Is, i + 1)

(* x is the requested-weighted average of the ratios of the entries that   *)
(* satisfy Is, whose weights add up to weight                              *)
IsWeightedAverage(x, Is(_), weight) ==
    /\ weight > 0
    /\ WeightSum(Is, 1) = weight
    /\ LET sum == WeightedRatioSum(Is, 1)
       IN  FracEq(x, <<sum[1], sum[2] * weight>>)

(* C27: in a returned result for a requirement that requests something,    *)
(* the overall ratio is the requested-weighted average of the category     *)
(* ratios, each category ratio that of the ratios of its category|cuisine  *)
(* keys, and each cuisine ratio that of the ratios of its                  *)
(* category|cuisine|subcategory keys.                                      *)
C27_HierarchyConsistent ==
    (Returned /\ ReqPaths # {}) =>
        /\ IsWeightedAverage(match.overall_match,
                             LAMBDA k : KeyLevel(k) = 1,
                             PathSum(RequestedFn, ReqPaths))
        /\ \A i \in 1..Len(match.category_matches) :
              LET key == match.category_matches[i][1]
              IN  KeyLevel(key) \in {1, 2} =>
                      IsWeightedAverage(match.category_matches[i][2],
                                        LAMBDA k : IsChildKey(key, k),
                                        RequestedUnder(key))

(* two cuisines of Mains with different ratios (Indian 1/2, Thai 1/1) and  *)
(* different weights: Mains is at 2/3                                      *)
C27_Witness ==
    /\ Returned
    /\ Requested(PaneerPath) = 2 /\ OfferedQty(PaneerPath) = 1
    /\ Requested(ThaiPath) = 1 /\ OfferedQty(ThaiPath) = 1
    /\ FracEq(DictGet(match.category_matches, Mains, <<0, 1>>), <<2, 3>>)
    /\ FracEq(DictGet(match.category_matches, Mains \o <<Sep>> \o Indian, <<0, 1>>),
              <<1, 2>>)
    /\ FracEq(DictGet(match.category_matches, Mains \o <<Sep>> \o Thai, <<0, 1>>),
              One)
    /\ FracEq(match.overall_match, <<2, 3>>)

(* C28: over-fulfillment is decided from the totals alone, fulfillment     *)
(* from the items: whenever a category is offered more in total than is    *)
(* requested of it (items never requested included) while one of its       *)
(* requested items is short, the returned result holds the category in     *)
(* over_100_categories, a ratio below 1 for it and an UnmetRequirement for  *)
(* the short item, all at once.                                            *)
C28_OverFulfilledYetUnmet ==
    Returned =>
        \A c \in Categories :
            \A p \in ShortPaths :
                (p[1] = c /\ OffTotal(c) > ReqTotal(c)) =>
                    /\ DictHas(match.over_100_categories, c)
                    /\ DictHas(match.category_matches, c)
                    /\ FracLess(DictGet(match.category_matches, c, One), One)
                    /\ \E i \in 1..Len(match.unmet_requirements) :
                          IsUnmetOf(match.unmet_requirements[i], p)

(* Paneer 2 requested and 1 offered, with Dal 2 that nobody requested:     *)
(* Mains is over-fulfilled (3 against 2, 150 percent), its ratio is 1/2    *)
(* and Paneer is unmet                                                     *)
C28_Witness ==
    /\ Returned
    /\ Requested(PaneerPath) = 2 /\ OfferedQty(PaneerPath) = 1
    /\ Requested(DalPath) = 0 /\ OfferedQty(DalPath) = 2
    /\ DictHas(match.over_100_categories, Mains)
    /\ DictGet(match.over_100_categories, Mains, NoMatch).match_percentage = 15000
    /\ FracEq(DictGet(match.category_matches, Mains, One), <<1, 2>>)
    /\ Len(match.unmet_requirements) = 1
    /\ match.unmet_requirements[1].shortfall = 1

(* C24: venue reduction returns a result for every ranked list, lists with *)
(* two records of one venue that share match percentage and variant id     *)
(* included: no push on and no pop from a venue's heap raises, and the     *)
(* response holds every record.                                            *)
C24_ReductionAlwaysReturns ==
    pc = "done" =>
        /\ response.status = "success"
        /\ Len(response.matches) = Len(match_results)

----------------------------------------------------------------------------
(* The settings of the matcher *)

PackagesOfId(id) == {k \in PackageIndexes : restaurant_packages[k].id = id}

RecordsOfId(id) ==
    {i \in 1..Len(match_results) : match_results[i].restaurant_id = id}

(* C29: whatever threshold and top_n the matcher was constructed with, the *)
(* ranked list score_restaurants returns holds one record for every        *)
(* supplied package, those of ratio 0 or below the threshold included: it  *)
(* is neither filtered nor truncated.                                      *)
C29_SettingsHaveNoEffect ==
    pc = "ranked" =>
        /\ Len(match_results) = Len(restaurant_packages)
        /\ \A k \in PackageIndexes :
              Cardinality(RecordsOfId(restaurant_packages[k].id))
                  = Cardinality(PackagesOfId(restaurant_packages[k].id))

(* threshold 1 and top_n 1, three packages: all three are returned, one of *)
(* ratio 0 and one of a ratio between 0 and the threshold                  *)
C29_Witness ==
    /\ pc = "ranked"
    /\ threshold = <<1, 1>>
    /\ top_n = 1
    /\ Len(restaurant_packages) = 3
    /\ Len(match_results) = 3
    /\ FracLess(<<0, 1>>, match_results[1].overall_match)
    /\ FracLess(match_results[1].overall_match, threshold)
    /\ FracEq(match_results[3].overall_match, <<0, 1>>)

----------------------------------------------------------------------------
(* contains_egg of the cuisines the builders make *)

(* the largest number of subcategories upstream sends for a cuisine *)
MaxSubcategories == 2

(* the item name "Egg" *)
Egg == <<"E">>

(* the count dicts of a subcategory: "Egg" and "Paneer", each absent or    *)
(* with count 0 or 1                                                       *)
EggCounts ==
    {e \o q : e \in {<<>>, << <<Egg, 0>> >>, << <<Egg, 1>> >>},
              q \in {<<>>, << <<Paneer, 0>> >>, << <<Paneer, 1>> >>}}

(* subcategory_data: {"name": ..., count_field: {...}} *)
SubcategoryData == [name : {Curry, Bread}, counts : EggCounts]

SubcategoryLists == UNION {[1..n -> SubcategoryData] : n \in 0..MaxSubcategories}

(* lines 846-850 and 1142-1144: the items with a count > 0, added to items *)
RECURSIVE PositiveItems(_, _, _)
PositiveItems(item_counts_data, i, items) ==
    IF i > Len(item_counts_data) THEN items
    ELSE PositiveItems(item_counts_data, i + 1,
             IF item_counts_data[i][2] > 0
             THEN DictPut(items, item_counts_data[i][1], item_counts_data[i][2])
             ELSE items)

(* lines 836-868: the loop over subcategory_list; acc holds                *)
(* cuisine_subcategories and item_counts_data, which stays bound to the    *)
(* counts of the subcategory handled last                                  *)
RECURSIVE ParseSubcategoryLoop(_, _, _)
ParseSubcategoryLoop(list, i, acc) ==
    IF i > Len(list) THEN acc
    ELSE LET item_counts_data == list[i].counts
             items == PositiveItems(item_counts_data, 1, <<>>)
         IN  ParseSubcategoryLoop(list, i + 1,
                 [cuisine_subcategories |->
                      IF items # <<>>
                      THEN DictPut(acc.cuisine_subcategories, list[i].name, items)
                      ELSE acc.cuisine_subcategories,
                  item_counts_data |-> item_counts_data])

(* lines 831-879 of parse_user_requirements: the cuisine of a requirement  *)
parse_cuisine(list) ==
    LET a == ParseSubcategoryLoop(list, 1,
                 [cuisine_subcategories |-> <<>>, item_counts_data |-> <<>>])
    IN  IF a.cuisine_subcategories # <<>>
        THEN [built |-> TRUE, subcategories |-> a.cuisine_subcategories,
              contains_egg |-> /\ DictHas(a.item_counts_data, Egg)
                               /\ DictGet(a.item_counts_data, Egg, 0) > 0]
        ELSE NoCuisine

(* lines 1142-1148: the items of one subcategory are added to its dict and *)
(* contains_egg is set at an "Egg" with count > 0                          *)
RECURSIVE AdaptItemsLoop(_, _, _, _)
AdaptItemsLoop(count_data, i, subcat_name, acc) ==
    IF i > Len(count_data) THEN acc
    ELSE LET item_type == count_data[i][1]
             count     == count_data[i][2]
         IN  AdaptItemsLoop(count_data, i + 1, subcat_name,
                 IF count > 0
                 THEN [built |-> TRUE,
                       subcategories |->
                           DictPut(acc.subcategories, subcat_name,
                               DictPut(DictGet(acc.subcategories, subcat_name, <<>>),
                                       item_type, count)),
                       contains_egg |-> IF item_type = Egg /\ count > 0 THEN TRUE
                                        ELSE acc.contains_egg]
                 ELSE acc)

(* lines 1131-1139: the loop over subcategory_list *)
RECURSIVE AdaptSubcategoryLoop(_, _, _)
AdaptSubcategoryLoop(list, i, acc) ==
    IF i > Len(list) THEN acc
    ELSE LET subcat_name == list[i].name
             entered == IF DictHas(acc.subcategories, subcat_name) THEN acc
                        ELSE [acc EXCEPT !.subcategories = DictPut(@, subcat_name, <<>>)]
         IN  AdaptSubcategoryLoop(list, i + 1,
                 AdaptItemsLoop(list[i].counts, 1, subcat_name, entered))

(* lines 1125-1159 of adapt_restaurant_data_updated, whose dict            *)
(* parse_restaurant_packages copies into the Cuisine (line 1270)           *)
adapt_cuisine(list) ==
    AdaptSubcategoryLoop(list, 1,
        [built |-> TRUE, subcategories |-> <<>>, contains_egg |-> FALSE])

InitCuisine ==
    /\ pc = "upstream"
    /\ subcategory_list \in SubcategoryLists
    /\ built_cuisine = NoCuisine
    /\ counts_data = <<>>
    /\ user_req = EmptyTree
    /\ restaurant = EmptyTree
    /\ match = NoMatch
    /\ restaurant_packages = <<>>
    /\ match_results = <<>>
    /\ response = NoResponse
    /\ UnusedScorer /\ DefaultMatcher /\ UnusedAnalyzer

(* the cuisine of a requirement *)
ParseCuisine ==
    /\ pc = "upstream"
    /\ built_cuisine' = parse_cuisine(subcategory_list)
    /\ pc' = "parsed"
    /\ UNCHANGED <<user_req, restaurant, match, restaurant_packages, match_results,
                   response, counts_data, subcategory_list,
                   scorerVars, matcherVars, analyzerVars>>

(* the cuisine of an offering *)
AdaptCuisine ==
    /\ pc = "upstream"
    /\ built_cuisine' = adapt_cuisine(subcategory_list)
    /\ pc' = "adapted"
    /\ UNCHANGED <<user_req, restaurant, match, restaurant_packages, match_results,
                   response, counts_data, subcategory_list,
                   scorerVars, matcherVars, analyzerVars>>

NextCuisine == ParseCuisine \/ AdaptCuisine

SpecCuisine == InitCuisine /\ [][NextCuisine]_vars

(* some subcategory of the built cuisine holds "Egg" with a quantity > 0 *)
HoldsEgg ==
    \E i \in 1..Len(built_cuisine.subcategories) :
        DictGet(built_cuisine.subcategories[i][2], Egg, 0) > 0

(* C25: in every cuisine built for a requirement or an offering,           *)
(* contains_egg is true exactly when an item named "Egg" has a quantity    *)
(* > 0 in some subcategory of the cuisine, whichever subcategory it is.    *)
C25_ContainsEggIffAnyEgg ==
    (pc \in {"parsed", "adapted"} /\ built_cuisine.built) =>
        (built_cuisine.contains_egg <=> HoldsEgg)

====
